---- MODULE Spec2Model ----
(***************************************************************************)
(* minihttp: the vhost registry (sitelist), its hot reload (load), the     *)
(* resolver (fetch) and the content-addressed builder (site.addResource,   *)
(* resource.update).                                                       *)
(*                                                                         *)
(* Conventions of the model                                                *)
(*   - a Go nil (pointer, slice, map entry that is absent) is Nil;         *)
(*   - a path is the sequence of its segments: "/" is << >>, "/f/x.css"    *)
(*     is <<"f", "x.css">>;                                                *)
(*   - a byte slice is a record [ref, data]: data are the bytes, ref is    *)
(*     the identity of the backing array (two slices are the same buffer   *)
(*     iff their refs are equal);                                          *)
(*   - sha256 is modelled as an injective function of the bytes, gzip as a *)
(*     deterministic function of the bytes with a tabulated output length. *)
(***************************************************************************)
EXTENDS Integers, Sequences, FiniteSets, TLC

VARIABLES
    disk,           \* the content tree under sl.root
    sites,          \* sl.sites: host -> site
    errNoSuchHost,  \* sl.errNoSuchHost
    errNoSuchFile,  \* sl.errNoSuchFile
    stats,          \* sl.filesInMemory, sl.plainBytesInMemory, sl.gzipBytesInMemory
    devmode,        \* sl.devmode
    writer,         \* sl.siteLock: the goroutine holding the write side, or "none"
    fieldGen,       \* history: the load pass that wrote each registry field last
    lastInstall,    \* history: the load pass whose install step ran last
    installedFrom,  \* history: the tree that pass walked
    nextGen,        \* number of load passes started so far
    ops,            \* number of requests and tree edits so far
    serving,        \* main has loaded the registry and started the servers
    conc,           \* requests are served concurrently (two goroutines) or one by one
    pc,             \* per goroutine: position in its handler
    loc,            \* per goroutine: the handler's local variables
    rw,             \* the RotateWriter: fp, wg, count, Queue, MaxLines
    logdir,         \* the directory of the log: the logfile and its archives
    lpc,            \* position of the Serve goroutine and of main (Shutdown)
    loghist         \* history: lines sent and flushed, what Shutdown met

\* the variables of the web server and those of the log writer
webvars == <<disk, sites, errNoSuchHost, errNoSuchFile, stats, devmode, writer,
             fieldGen, lastInstall, installedFrom, nextGen, ops, serving, conc,
             pc, loc>>

logvars == <<rw, logdir, lpc, loghist>>

vars == <<webvars, logvars>>

Nil == [nil |-> TRUE]

-----------------------------------------------------------------------------
(* Bounds *)

\* lines written to the log in one behaviour
MaxWrites == 11

\* capacity of the RotateWriter's queue (1024 in NewRotateWriter)
QueueCap == 2

\* requests and content-tree edits in one behaviour, when requests are served
\* concurrently
MaxOps == 3

\* the same, when they are served one by one
MaxSeqOps == 2

-----------------------------------------------------------------------------
(* Bytes, digests, compression *)

Contents == {"hi", "page", "noise"}

\* len(body) of a file holding content c
PlainLen(c) == CASE c = "hi"    -> 2
                 [] c = "page"  -> 1000
                 [] c = "noise" -> 1000
                 [] c \in {"no such host", "no such file"} -> 12

\* len of the gzip stream gzip.NewWriter produces for c
GzLen(c) == CASE c = "hi"    -> 22
              [] c = "page"  -> 300
              [] c = "noise" -> 1010

PlainBytes(c) == [enc |-> "plain", of |-> c]
GzipBytes(c)  == [enc |-> "gzip", of |-> c]

ByteLen(b) == IF b.enc = "plain" THEN PlainLen(b.of) ELSE GzLen(b.of)

\* a tag that depends on the load pass that computes it
Sha256HexOfPass(b) == [sha256 |-> b, pass |-> nextGen]

\* hex.EncodeToString(sha256.Sum256(b)): injective in the bytes
Sha256Hex(b) == [sha256 |-> b]

\* a byte slice: backing array ref, contents data
Buf(ref, data) == [ref |-> ref, data |-> data]

BufLen(b) == IF b = Nil THEN 0 ELSE ByteLen(b.data)

-----------------------------------------------------------------------------
(* File names, extensions, paths *)

\* path.Ext of a file name
Ext(name) == CASE name \in {"index.html", "404.html", "403.html", "new.html"} -> ".html"
               [] name \in {"pic.jpg"} -> ".jpg"
               [] name \in {"style.css"} -> ".css"
               [] name \in {"x.txt"} -> ".txt"
               [] OTHER -> ""

PathExt(p) == IF p = << >> THEN "" ELSE Ext(p[Len(p)])

\* mime.TypeByExtension
TypeByExtension(ext) == CASE ext = ".html" -> "text/html; charset=utf-8"
                          [] ext = ".jpg"  -> "image/jpeg"
                          [] ext = ".css"  -> "text/css; charset=utf-8"
                          [] ext = ".txt"  -> "text/plain; charset=utf-8"
                          [] OTHER -> ""

\* byte order of the names the trees use (ioutil.ReadDir and filepath.Walk
\* list a directory sorted by name)
NameOrder == <<"403.html", "404.html", "a", "b", "common", "d", "e", "f", "fancy",
               "http", "https", "index.html", "new.html", "pic.jpg", "style.css",
               "x.txt">>

NameRank(n) == CHOOSE i \in 1..Len(NameOrder) : NameOrder[i] = n

\* p sorts before q in a pre-order walk that lists every directory by name
RECURSIVE PathLess(_, _)
PathLess(p, q) ==
    IF p = << >> THEN q # << >>
    ELSE IF q = << >> THEN FALSE
    ELSE IF p[1] = q[1] THEN PathLess(Tail(p), Tail(q))
    ELSE NameRank(p[1]) < NameRank(q[1])

RECURSIVE SortPaths(_)
SortPaths(S) ==
    IF S = {} THEN << >>
    ELSE LET m == CHOOSE x \in S : \A y \in S \ {x} : PathLess(x, y)
         IN  <<m>> \o SortPaths(S \ {m})

IsPrefix(p, q) == Len(p) <= Len(q) /\ SubSeq(q, 1, Len(p)) = p

\* path.Clean of a rooted URL path, segment by segment: "" and "." are
\* dropped, ".." removes the segment before it (nothing at the root)
RECURSIVE CleanFrom(_, _)
CleanFrom(done, rest) ==
    IF rest = << >> THEN done
    ELSE LET h == Head(rest)
         IN  IF h \in {"", "."} THEN CleanFrom(done, Tail(rest))
             ELSE IF h = ".."
                  THEN CleanFrom(IF done = << >> THEN done
                                 ELSE SubSeq(done, 1, Len(done) - 1), Tail(rest))
                  ELSE CleanFrom(Append(done, h), Tail(rest))

Clean(p) == CleanFrom(<< >>, p)

-----------------------------------------------------------------------------
(* Site configuration (config.go) *)

\* time.Duration values, in tenths of a second
Hour        == 36000
OneWeek     == 7 * 24 * Hour
ThreeMonths == 90 * 24 * Hour

DefaultCacheTimes ==
    [e \in {".woff", ".woff2", ".ttf", ".eot", ".otf", ".jpg", ".png", ".css"} |->
        IF e = ".css" THEN OneWeek ELSE ThreeMonths]

DefaultMinSize == 256

DefaultSiteConfig ==
    [General     |-> [NoDefaultFile |-> FALSE, DefaultFile |-> "index.html",
                      FancyFolder |-> "/f/"],
     Cache       |-> [NoCacheFromMem |-> FALSE, NoCacheFromDisk |-> FALSE,
                      CacheTimes |-> DefaultCacheTimes, DefaultCacheTime |-> Hour],
     Compression |-> [NoCompressFromMem |-> FALSE, NoCompressFromDisk |-> FALSE,
                      MinSize |-> DefaultMinSize, MinRatio |-> 11,
                      Blacklist |-> {".jpg", ".zip", ".gz", ".tgz"}]]

readSiteConfLenient(file) ==
    IF file.kind \in {"missing", "bad"} THEN [conf |-> DefaultSiteConfig, err |-> TRUE]
    ELSE [conf |-> [General     |-> IF file.General = Nil
                                    THEN DefaultSiteConfig.General ELSE file.General,
                    Cache       |-> IF file.Cache = Nil
                                    THEN DefaultSiteConfig.Cache ELSE file.Cache,
                    Compression |-> IF file.Compression = Nil
                                    THEN DefaultSiteConfig.Compression
                                    ELSE file.Compression],
          err |-> FALSE]

\* readSiteConf on the host's config.toml, which is of kind "missing"
\* (ioutil.ReadFile fails), "bad" (toml.Unmarshal fails) or "toml" (decoded;
\* a section the file does not have is Nil). The result is the pair
\* (conf, err) of the Go function.
readSiteConf(file) ==
    IF file.kind = "missing" THEN [conf |-> DefaultSiteConfig, err |-> TRUE]
    ELSE IF file.kind = "bad" THEN [conf |-> Nil, err |-> TRUE]
    ELSE [conf |-> [General     |-> IF file.General = Nil
                                    THEN DefaultSiteConfig.General ELSE file.General,
                    Cache       |-> IF file.Cache = Nil
                                    THEN DefaultSiteConfig.Cache ELSE file.Cache,
                    Compression |-> IF file.Compression = Nil
                                    THEN DefaultSiteConfig.Compression
                                    ELSE file.Compression],
          err |-> FALSE]

-----------------------------------------------------------------------------
(* Resources (resource.update, resource.updateTagCompress) *)

NoCache == [directive |-> "public, max-age=0, no-cache"]

\* fmt.Sprintf("%.0f", d.Seconds()) of a duration of d tenths of a second:
\* the nearest integer, a tie going to the even one
RoundSeconds(d) ==
    LET q == d \div 10
        r == d % 10
    IN  IF r > 5 \/ (r = 5 /\ q % 2 = 1) THEN q + 1 ELSE q

MaxAge(d) == [directive |-> "public, max-age=", seconds |-> RoundSeconds(d)]

\* a zero-valued resource, as &resource{} allocates it
NewResource(id) ==
    [id |-> id, body |-> Nil, gzip |-> Nil, bodyReadCloser |-> Nil,
     permitGZIP |-> FALSE, loaded |-> 0, cnttype |-> "", cache |-> Nil,
     hash |-> Nil, ghash |-> Nil, path |-> << >>, fromDisk |-> FALSE,
     config |-> Nil]

\* the cache duration update chooses, in tenths of a second
CacheDurationDiskOff(r) ==
    LET cacheconf == r.config.Cache
        ext       == PathExt(r.path)
    IN  IF ~r.fromDisk /\ ~cacheconf.NoCacheFromMem
        THEN IF ext \in DOMAIN cacheconf.CacheTimes
             THEN cacheconf.CacheTimes[ext]
             ELSE cacheconf.DefaultCacheTime
        ELSE 0

CacheDuration(r) ==
    LET cacheconf == r.config.Cache
        ext       == PathExt(r.path)
    IN  IF (~r.fromDisk /\ ~cacheconf.NoCacheFromMem) \/
           (r.fromDisk /\ ~cacheconf.NoCacheFromDisk)
        THEN IF ext \in DOMAIN cacheconf.CacheTimes
             THEN cacheconf.CacheTimes[ext]
             ELSE cacheconf.DefaultCacheTime
        ELSE 0

CacheDirectiveMaxAgeOnly(r) == MaxAge(CacheDuration(r))

CacheDirective(r) ==
    IF CacheDuration(r) = 0 THEN NoCache ELSE MaxAge(CacheDuration(r))

\* the first early return of the compression part of update
CompressionOff(r) ==
    LET compressconf == r.config.Compression
        mincompsize  == IF compressconf.MinSize = 0 THEN DefaultMinSize
                        ELSE compressconf.MinSize
    IN  \/ r.fromDisk /\ compressconf.NoCompressFromDisk
        \/ ~r.fromDisk /\ compressconf.NoCompressFromMem
        \/ r.body # Nil /\ BufLen(r.body) < mincompsize

Blacklisted(r) == PathExt(r.path) \in r.config.Compression.Blacklist

\* float64(len(r.gzip))*1.1 >= float64(len(r.body)), in tenths
RatioTooLow(r) == r.gzip # Nil /\ BufLen(r.gzip) * 11 >= BufLen(r.body) * 10

update(r) ==
    LET r1 == [r EXCEPT !.cnttype = TypeByExtension(PathExt(r.path)),
                        !.cache = CacheDirective(r)]
    IN  IF CompressionOff(r) THEN r1
        ELSE IF Blacklisted(r) THEN r1
        ELSE IF RatioTooLow(r) THEN [r1 EXCEPT !.gzip = Nil]
        ELSE [r1 EXCEPT !.permitGZIP = TRUE]

\* r.body is set; the gzip buffer is a fresh allocation named by the resource
updateTagCompress(r) ==
    LET gz == Buf([of |-> r.id, enc |-> "gzip"], GzipBytes(r.body.data.of))
    IN  update([r EXCEPT !.gzip = gz,
                         !.hash = Sha256Hex(r.body.data),
                         !.ghash = Sha256Hex(gz.data)])

\* the hardcoded resources
defaultNoSuchHost ==
    [NewResource([builtin |-> "403"]) EXCEPT
        !.body = Buf([builtin |-> "403"], [enc |-> "plain", of |-> "no such host"]),
        !.cnttype = "text/plain; charset=utf-8",
        !.cache = NoCache,
        !.hash = [lit |-> "W/go-far-away"],
        !.path = <<"403.html">>]

defaultNoSuchFile ==
    [NewResource([builtin |-> "404"]) EXCEPT
        !.body = Buf([builtin |-> "404"], [enc |-> "plain", of |-> "no such file"]),
        !.cnttype = "text/plain; charset=utf-8",
        !.cache = NoCache,
        !.hash = [lit |-> "W/go-away"],
        !.path = <<"404.html">>]

-----------------------------------------------------------------------------
(* The content tree.                                                       *)
(*   tree    = [listable, g403, g404, hosts]: the root directory, its      *)
(*             403.html and 404.html (a file or Nil) and its host          *)
(*             directories, by name                                        *)
(*   hostdir = [listable, conf, sub, top]: sub maps the name of each       *)
(*             directory of the host directory to its files, by path below *)
(*             it; top maps the name of each regular file that lies        *)
(*             directly in the host directory, config.toml aside, to it    *)
(*   file    = [data, mtime, readable]                                     *)

File(c, t) == [data |-> c, mtime |-> t, readable |-> TRUE]

Unreadable(c, t) == [data |-> c, mtime |-> t, readable |-> FALSE]

NoConf == [kind |-> "missing"]

\* the directories of a subtree: every proper prefix of a file's path
DirsOf(files) ==
    {<< >>} \cup UNION {{SubSeq(p, 1, n) : n \in 0..(Len(p) - 1)} : p \in DOMAIN files}

\* what filepath.Walk visits in a subtree, in its order
WalkOrder(files) == SortPaths(DirsOf(files) \cup DOMAIN files)

SortedNames(S) == LET P == SortPaths({<<n>> : n \in S})
                  IN  [i \in 1..Len(P) |-> P[i][1]]

-----------------------------------------------------------------------------
(* The builder (site.addResource, newSite) *)

newSite(config) == [http |-> << >>, https |-> << >>, config |-> config]

\* m[k] = v of a Go map held as a function
MapSet(m, k, v) == [x \in DOMAIN m \cup {k} |-> IF x = k THEN v ELSE m[x]]

\* The state of one load pass that addResource reads and writes:
\*   st.site      the site being built
\*   st.cachemap  content digest -> cache{plain, gzip, hash, ghash}
\*   st.gzipped   history: the digests addResource compressed, one entry
\*                per gzip.NewWriter run
\*   st.err       an error was returned
\* ref names what the call allocates (resource, buffers); files is the
\* subtree walked, node the path the walk is at, sitepath the same path (p2).
addResourceNoDedup(st, ref, files, node, http, https) ==
    LET s        == st.site
        isDir    == node \notin DOMAIN files
        dflt     == IF s.config.General.DefaultFile = "" THEN node
                    ELSE Append(node, s.config.General.DefaultFile)
        diskpath == IF isDir THEN dflt ELSE node
    IN  IF isDir /\ diskpath \notin DOMAIN files THEN st
        ELSE IF ~files[diskpath].readable THEN [st EXCEPT !.err = TRUE]
        ELSE
        LET f      == files[diskpath]
            body   == Buf([of |-> ref, enc |-> "plain"], PlainBytes(f.data))
            hash   == Sha256Hex(body.data)
            gz     == Buf([of |-> ref, enc |-> "gzip"], GzipBytes(f.data))
            entry  == [plain |-> body, gzip |-> gz, hash |-> hash,
                       ghash |-> Sha256Hex(gz.data)]
            r      == update([NewResource(ref) EXCEPT
                                !.path = ref.dir \o diskpath,
                                !.config = s.config,
                                !.loaded = f.mtime,
                                !.body = entry.plain,
                                !.gzip = entry.gzip,
                                !.hash = entry.hash,
                                !.ghash = entry.ghash])
        IN  [st EXCEPT
                !.cachemap = MapSet(@, hash, entry),
                !.gzipped  = Append(@, hash),
                !.site     = [s EXCEPT
                                !.http  = IF http THEN MapSet(@, node, r) ELSE @,
                                !.https = IF https THEN MapSet(@, node, r) ELSE @]]

addResourceDirFails(st, ref, files, node, http, https) ==
    IF /\ node \notin DOMAIN files
       /\ Append(node, st.site.config.General.DefaultFile) \notin DOMAIN files
    THEN [st EXCEPT !.err = TRUE]
    ELSE addResourceNoDedup(st, ref, files, node, http, https)

addResource(st, ref, files, node, http, https) ==
    LET s        == st.site
        isDir    == node \notin DOMAIN files
        dflt     == IF s.config.General.DefaultFile = "" THEN node
                    ELSE Append(node, s.config.General.DefaultFile)
        diskpath == IF isDir THEN dflt ELSE node
    IN  IF isDir /\ diskpath \notin DOMAIN files THEN st
        ELSE IF ~files[diskpath].readable THEN [st EXCEPT !.err = TRUE]
        ELSE
        LET f      == files[diskpath]
            body   == Buf([of |-> ref, enc |-> "plain"], PlainBytes(f.data))
            hash   == Sha256Hex(body.data)
            hit    == hash \in DOMAIN st.cachemap
            gz     == Buf([of |-> ref, enc |-> "gzip"], GzipBytes(f.data))
            entry  == IF hit THEN st.cachemap[hash]
                      ELSE [plain |-> body, gzip |-> gz, hash |-> hash,
                            ghash |-> Sha256Hex(gz.data)]
            r      == update([NewResource(ref) EXCEPT
                                !.path = ref.dir \o diskpath,
                                !.config = s.config,
                                !.loaded = f.mtime,
                                !.body = entry.plain,
                                !.gzip = entry.gzip,
                                !.hash = entry.hash,
                                !.ghash = entry.ghash])
        IN  [st EXCEPT
                !.cachemap = IF hit THEN @ ELSE MapSet(@, hash, entry),
                !.gzipped  = IF hit THEN @ ELSE Append(@, hash),
                !.site     = [s EXCEPT
                                !.http  = IF http THEN MapSet(@, node, r) ELSE @,
                                !.https = IF https THEN MapSet(@, node, r) ELSE @]]

-----------------------------------------------------------------------------
(* One load pass (sitelist.load), up to its install.                       *)
(* The locals of a pass:                                                   *)
(*   ld.gen            the pass (a history value naming what it allocates) *)
(*   ld.sites, ld.errNoSuchHost, ld.errNoSuchFile, ld.cachemap             *)
(*   ld.gzipped        history, see addResource                            *)
(*   ld.err            the pass returned an error                          *)
(*   ld.tree           history: the tree the pass walked                   *)

NewLoadInPlace(gen) ==
    [gen |-> gen, sites |-> sites, errNoSuchHost |-> Nil,
     errNoSuchFile |-> Nil, cachemap |-> << >>, gzipped |-> << >>, err |-> FALSE,
     site |-> Nil, tree |-> Nil]

NewLoad(gen) ==
    [gen |-> gen, sites |-> << >>, errNoSuchHost |-> Nil,
     errNoSuchFile |-> Nil, cachemap |-> << >>, gzipped |-> << >>, err |-> FALSE,
     site |-> Nil, tree |-> Nil]

\* filepath.Walk over one directory of a host, addResource on every path
RECURSIVE WalkNodes(_, _, _, _, _, _)
WalkNodes(st, dir, files, nodes, http, https) ==
    IF nodes = << >> \/ st.err THEN st
    ELSE WalkNodes(addResource(st, [gen |-> st.gen, dir |-> dir, node |-> Head(nodes)],
                               files, Head(nodes), http, https),
                   dir, files, Tail(nodes), http, https)

RECURSIVE WalkSchemesOtherCommon(_, _, _, _)
WalkSchemesOtherCommon(st, name, hostdir, schemes) ==
    IF schemes = << >> \/ st.err THEN st
    ELSE IF Head(schemes) \notin DOMAIN hostdir.sub
    THEN WalkSchemesOtherCommon(st, name, hostdir, Tail(schemes))
    ELSE LET scheme == Head(schemes)
             files  == hostdir.sub[scheme]
         IN  WalkSchemesOtherCommon(
                 WalkNodes(st, <<name, scheme>>, files, WalkOrder(files),
                           scheme # "https", scheme # "http"),
                 name, hostdir, Tail(schemes))

\* the loop over the entries of a host directory: an entry that is not a
\* directory is passed over
RECURSIVE WalkSchemes(_, _, _, _)
WalkSchemes(st, name, hostdir, schemes) ==
    IF schemes = << >> \/ st.err THEN st
    ELSE IF Head(schemes) \notin DOMAIN hostdir.sub
    THEN WalkSchemes(st, name, hostdir, Tail(schemes))
    ELSE LET scheme == Head(schemes)
             http   == scheme = "http" \/ scheme = "common"
             https  == scheme = "https" \/ scheme = "common"
             files  == hostdir.sub[scheme]
         IN  WalkSchemes(WalkNodes(st, <<name, scheme>>, files, WalkOrder(files),
                                   http, https),
                         name, hostdir, Tail(schemes))

\* the body of the loop over the root's entries, for a global error page
LoadGlobal(ld, tree, name) ==
    LET file == IF name = "404.html" THEN tree.g404 ELSE tree.g403
        res  == [NewResource([gen |-> ld.gen, dir |-> << >>, node |-> <<name>>]) EXCEPT
                    !.path = <<name>>, !.config = DefaultSiteConfig, !.loaded = ld.gen]
        ok   == file # Nil /\ file.readable
        full == IF ok
                THEN updateTagCompress(
                        [res EXCEPT !.body = Buf([of |-> res.id, enc |-> "plain"],
                                                 PlainBytes(file.data))])
                ELSE res
    IN  [ld EXCEPT !.errNoSuchFile = IF name = "404.html" THEN full ELSE @,
                   !.errNoSuchHost = IF name = "403.html" THEN full ELSE @,
                   !.err = ~ok]

\* the body of the loop over the root's entries, for a host directory
LoadHost(ld, tree, name) ==
    IF name \notin DOMAIN tree.hosts \/ ~tree.hosts[name].listable
    THEN [ld EXCEPT !.err = TRUE]
    ELSE LET hostdir == tree.hosts[name]
             rc      == readSiteConf(hostdir.conf)
         IN  IF rc.err /\ rc.conf = Nil THEN [ld EXCEPT !.err = TRUE]
             ELSE LET st == WalkSchemes([ld EXCEPT !.site = newSite(rc.conf)], name,
                                        hostdir,
                                        SortedNames(DOMAIN hostdir.sub
                                                    \cup DOMAIN hostdir.top))
                  IN  [st EXCEPT !.sites = MapSet(@, name, st.site), !.site = Nil]

LoadEntry(ld, tree, name) ==
    IF name \in {"403.html", "404.html"} THEN LoadGlobal(ld, tree, name)
    ELSE LoadHost(ld, tree, name)

\* ioutil.ReadDir(sl.root): the names of the entries, sorted
RootEntries(tree) ==
    SortedNames(DOMAIN tree.hosts
                \cup (IF tree.g403 # Nil THEN {"403.html"} ELSE {})
                \cup (IF tree.g404 # Nil THEN {"404.html"} ELSE {}))

\* the loop over the root's entries, until the first error
RECURSIVE LoadEntries(_, _, _)
LoadEntries(ld, tree, names) ==
    IF names = << >> \/ ld.err THEN ld
    ELSE LoadEntries(LoadEntry(ld, tree, Head(names)), tree, Tail(names))

\* load from its start to the install: the listing of the root and the loop
\* over its entries, reading the tree as it is
Build(gen, tree) ==
    IF tree.listable
    THEN LoadEntries([NewLoad(gen) EXCEPT !.tree = tree], tree, RootEntries(tree))
    ELSE [NewLoad(gen) EXCEPT !.tree = tree, !.err = TRUE]

\* the statistics the install step stores
StatsOf(cachemap) ==
    LET RECURSIVE Sum(_, _)
        Sum(S, which) ==
            IF S = {} THEN 0
            ELSE LET h == CHOOSE x \in S : TRUE
                 IN  BufLen(IF which = "plain" THEN cachemap[h].plain
                            ELSE cachemap[h].gzip) + Sum(S \ {h}, which)
    IN  [filesInMemory      |-> Cardinality(DOMAIN cachemap),
         plainBytesInMemory |-> Sum(DOMAIN cachemap, "plain"),
         gzipBytesInMemory  |-> Sum(DOMAIN cachemap, "gzip")]

-----------------------------------------------------------------------------
(* The content trees and the requests the model draws from *)

\* host a: a 404.html directly in the host directory; http/d holds the
\* default file, http/f does not, and https/e holds a directory of the
\* default file's name
SiteA ==
    [listable |-> TRUE, conf |-> NoConf,
     top |-> ("404.html" :> File("hi", 9)),
     sub |-> [http  |-> (<<"index.html">> :> File("page", 1)) @@
                        (<<"pic.jpg">> :> File("noise", 1)) @@
                        (<<"f", "style.css">> :> File("hi", 1)) @@
                        (<<"d", "index.html">> :> File("hi", 1)),
              https |-> (<<"index.html">> :> File("page", 2)) @@
                        (<<"404.html">> :> File("noise", 2)) @@
                        (<<"e", "index.html", "x.txt">> :> File("hi", 2)),
              fancy |-> (<<"f", "style.css">> :> File("page", 3)) @@
                        (<<"f", "pic.jpg">> :> File("noise", 3)) @@
                        (<<"f", "b", "index.html">> :> File("hi", 3))]]

\* a config.toml with a [general] section that sets noDefaultFile = true,
\* defaultFile and fancyFolder, a [cache] section that sets noCacheFromDisk,
\* defaultCacheTime and a cache time of zero for .html, and a [compression]
\* section that sets noCompressFromDisk and minRatio = 4.0
ConfB ==
    [kind |-> "toml",
     General |-> [NoDefaultFile |-> TRUE, DefaultFile |-> "index.html",
                  FancyFolder |-> "/f/"],
     Compression |-> [NoCompressFromMem |-> FALSE, NoCompressFromDisk |-> TRUE,
                      MinSize |-> 0, MinRatio |-> 40, Blacklist |-> {}],
     Cache |-> [NoCacheFromMem |-> FALSE, NoCacheFromDisk |-> TRUE,
                CacheTimes |-> (".html" :> 0), DefaultCacheTime |-> Hour]]

SiteB ==
    [listable |-> TRUE, conf |-> ConfB, top |-> << >>,
     sub |-> [common |-> (<<"index.html">> :> File("page", 4)),
              fancy  |-> (<<"f", "pic.jpg">> :> File("noise", 4))]]

Base ==
    [listable |-> TRUE, g403 |-> File("hi", 5), g404 |-> Nil,
     hosts |-> [a |-> SiteA, b |-> SiteB]]

\* Base with a/http/new.html added, and a directory a/common whose
\* index.html has the key of a/http/index.html and of a/https/index.html
Added ==
    [Base EXCEPT !.hosts.a.sub =
        [common |-> (<<"index.html">> :> File("hi", 6)) @@
                    (<<"x.txt">> :> File("hi", 6)),
         http   |-> @.http @@ (<<"new.html">> :> File("page", 6)),
         https  |-> @.https,
         fancy  |-> @.fancy]]

\* a config.toml with a [cache] section only, which sets noCacheFromMem,
\* defaultCacheTime and cache times for .jpg (zero) and .css
ConfA ==
    [kind |-> "toml", General |-> Nil, Compression |-> Nil,
     Cache |-> [NoCacheFromMem |-> TRUE, NoCacheFromDisk |-> FALSE,
                CacheTimes |-> (".jpg" :> 0) @@ (".css" :> OneWeek),
                DefaultCacheTime |-> Hour]]

\* no 403.html, a 404.html, host b removed, host a with a config.toml
Bare ==
    [listable |-> TRUE, g403 |-> Nil, g404 |-> File("page", 7),
     hosts |-> [a |-> [SiteA EXCEPT !.conf = ConfA]]]

\* Base with a content file of host b that cannot be read
Broken ==
    [Base EXCEPT !.hosts.b.sub.common = @ @@ (<<"new.html">> :> Unreadable("hi", 8))]

\* a config.toml with a [general] section only, which sets defaultFile and
\* leaves fancyFolder out: the field is the empty string
ConfC ==
    [kind |-> "toml",
     General |-> [NoDefaultFile |-> FALSE, DefaultFile |-> "index.html",
                  FancyFolder |-> ""],
     Compression |-> Nil, Cache |-> Nil]

\* Base with host b removed and host a with such a config.toml
Lone == [Base EXCEPT !.hosts = [a |-> [SiteA EXCEPT !.conf = ConfC]]]

\* Base with a root directory that cannot be listed
Locked == [Base EXCEPT !.listable = FALSE]

\* Base with a config.toml of host b that does not parse
Unparsed == [Base EXCEPT !.hosts.b.conf = [kind |-> "bad"]]

\* the trees of the concurrent runs: small sites
LeanA ==
    [listable |-> TRUE, conf |-> NoConf, top |-> << >>,
     sub |-> [http |-> (<<"index.html">> :> File("page", 1))]]

\* host b with a content file that cannot be read
LeanB ==
    [listable |-> TRUE, conf |-> NoConf, top |-> << >>,
     sub |-> [common |-> (<<"index.html">> :> File("hi", 2)) @@
                         (<<"new.html">> :> Unreadable("hi", 5))]]

LeanBase ==
    [listable |-> TRUE, g403 |-> File("hi", 3), g404 |-> File("page", 3),
     hosts |-> [a |-> LeanA]]

\* no 403.html, no 404.html, a/http/new.html added
LeanBare ==
    [listable |-> TRUE, g403 |-> Nil, g404 |-> Nil,
     hosts |-> [a |-> [LeanA EXCEPT !.sub.http =
                                       @ @@ (<<"new.html">> :> File("page", 4))]]]

\* LeanBase with host b added
LeanBroken == [LeanBase EXCEPT !.hosts = [a |-> LeanA, b |-> LeanB]]

Trees(c) == IF c THEN {LeanBase, LeanBare, LeanBroken}
            ELSE {Base, Added, Bare, Lone, Broken, Locked, Unparsed}

\* the trees main may find when the server starts
InitialTrees(c) == IF c THEN {LeanBase} ELSE {Base, Bare, Lone, Locked}

\* sitelist.defaulthost, set by main from the server configuration
defaulthost == "b"

Url(scheme, name, port, path) ==
    [scheme |-> scheme, host |-> [name |-> name, port |-> port], path |-> path]

Requests(c) ==
    IF c
    THEN {Url("https", "z", "", <<"index.html">>),
          Url("http", "a", "8080", <<"f", "nope">>),
          Url("http", "a", "", <<"new.html">>)}
    ELSE
    {Url("http", "a", "8080", << >>),
     Url("https", "z", "", <<"index.html">>),
     Url("https", "a", "", <<"nope">>),
     Url("http", "a", "", <<"nope">>),
     Url("http", "a", "", <<"new.html">>),
     Url("http", "a", "", <<"f", "style.css">>),
     Url("http", "a", "", <<"x", "..", "f", "pic.jpg">>),
     Url("http", "a", "", <<"f", "b">>),
     Url("http", "z", "", <<"f", "pic.jpg">>),
     Url("https", "b", "", <<"f", "pic.jpg">>)}

Procs == {"g1", "g2"}

-----------------------------------------------------------------------------
(* Goroutine state *)

IdleLoc ==
    [op |-> "none", url |-> Nil, host |-> "", s |-> Nil, p |-> << >>,
     res |-> Nil, status |-> 0, seen |-> {}, tmp |-> Nil,
     ld |-> Nil, ret |-> "idle", n |-> 0, dev |-> FALSE, edited |-> FALSE,
     req |-> Nil, resp |-> Nil, out |-> Nil]

InitWith(c) ==
    /\ conc = c
    /\ disk \in InitialTrees(c)
    /\ sites = << >>
    /\ errNoSuchHost = Nil
    /\ errNoSuchFile = Nil
    /\ stats = [filesInMemory |-> 0, plainBytesInMemory |-> 0, gzipBytesInMemory |-> 0]
    /\ devmode = 0
    /\ writer = "none"
    /\ fieldGen = [sites |-> 0, errNoSuchFile |-> 0, errNoSuchHost |-> 0, stats |-> 0]
    /\ lastInstall = 0
    /\ installedFrom = Nil
    /\ nextGen = 0
    /\ ops = 0
    /\ serving = FALSE
    /\ pc = [g \in Procs |-> IF g = "g1" THEN "load_build" ELSE "idle"]
    /\ loc = [g \in Procs |-> IF g = "g1"
                                THEN [IdleLoc EXCEPT !.op = "main", !.ret = "main_loaded"]
                                ELSE IdleLoc]

\* no logfile is configured: the logger writes to stderr and main makes no
\* RotateWriter
NoLogFile ==
    /\ rw = Nil
    /\ logdir = Nil
    /\ lpc = Nil
    /\ loghist = Nil

Init == InitWith(TRUE) /\ NoLogFile

InitSeq == InitWith(FALSE) /\ NoLogFile

registry == <<sites, errNoSuchHost, errNoSuchFile, stats>>

\* a handler may start: the servers run, the run is not over, and the first
\* idle goroutine takes the request
CanStart(g) ==
    /\ serving
    /\ ops < (IF conc THEN MaxOps ELSE MaxSeqOps)
    /\ pc[g] = "idle"
    /\ g = "g1" \/ (conc /\ pc["g1"] # "idle")

-----------------------------------------------------------------------------
(* sitelist.load, step by step.  The build reads the tree in one step (the  *)
(* tree is not edited while a pass walks it); the install holds the write  *)
(* lock from its first to its last assignment.                             *)

\* where load goes after the build: back to its caller on an error ("return
\* err"), else to the install
LoadNextPcIgnoreErr(ld, ret) == "load_lock"

LoadNextPcUnlocked(ld, ret) == IF ld.err THEN ret ELSE "load_nsf"

LoadNextPc(ld, ret) == IF ld.err THEN ret ELSE "load_lock"

\* sl.siteLock.Lock() can be taken
CanLockAlways(w) == TRUE

CanLock(w) == w = "none"

\* sl.siteLock.RLock() can be taken
CanRLockAlways(w) == TRUE

CanRLock(w) == w = "none"

LoadBuild(g) ==
    /\ pc[g] = "load_build"
    /\ nextGen' = nextGen + 1
    /\ LET ld == Build(nextGen + 1, disk)
       IN  /\ loc' = [loc EXCEPT ![g].ld = ld]
           /\ pc' = [pc EXCEPT ![g] = LoadNextPc(ld, loc[g].ret)]
    /\ UNCHANGED <<disk, sites, errNoSuchHost, errNoSuchFile, stats, devmode, writer,
                   fieldGen, lastInstall, installedFrom, ops, serving, conc, logvars>>

\* sl.siteLock.Lock(); sl.sites = sites
LoadLock(g) ==
    /\ pc[g] = "load_lock"
    /\ CanLock(writer)
    /\ writer' = g
    /\ sites' = loc[g].ld.sites
    /\ fieldGen' = [fieldGen EXCEPT !.sites = loc[g].ld.gen]
    /\ lastInstall' = loc[g].ld.gen
    /\ installedFrom' = loc[g].ld.tree
    /\ pc' = [pc EXCEPT ![g] = "load_nsf"]
    /\ UNCHANGED <<disk, errNoSuchHost, errNoSuchFile, stats, devmode, nextGen, ops,
                   serving, loc, conc, logvars>>

\* sl.errNoSuchFile = errNoSuchFile
LoadNsf(g) ==
    /\ pc[g] = "load_nsf"
    /\ errNoSuchFile' = loc[g].ld.errNoSuchFile
    /\ fieldGen' = [fieldGen EXCEPT !.errNoSuchFile = loc[g].ld.gen]
    /\ pc' = [pc EXCEPT ![g] = "load_nsh"]
    /\ UNCHANGED <<disk, sites, errNoSuchHost, stats, devmode, writer, lastInstall, installedFrom,
                   nextGen, ops, serving, loc, conc, logvars>>

\* sl.errNoSuchHost = errNoSuchHost; the statistics; sl.siteLock.Unlock();
\* return nil
LoadNsh(g) ==
    /\ pc[g] = "load_nsh"
    /\ errNoSuchHost' = loc[g].ld.errNoSuchHost
    /\ stats' = StatsOf(loc[g].ld.cachemap)
    /\ fieldGen' = [fieldGen EXCEPT !.errNoSuchHost = loc[g].ld.gen,
                                    !.stats = loc[g].ld.gen]
    /\ writer' = "none"
    /\ pc' = [pc EXCEPT ![g] = loc[g].ret]
    /\ UNCHANGED <<disk, sites, errNoSuchFile, devmode, lastInstall, installedFrom, nextGen, ops,
                   serving, loc, conc, logvars>>

\* main: "if err = sl.load(); err != nil { return }", then sl.dev(*development)
\* and the servers
MainLoaded(g) ==
    /\ pc[g] = "main_loaded"
    /\ IF loc[g].ld.err
       THEN /\ pc' = [pc EXCEPT ![g] = "exit"]
            /\ UNCHANGED <<devmode, serving, loc>>
       ELSE /\ \E d \in {0, 1} : devmode' = d
            /\ serving' = TRUE
            /\ pc' = [pc EXCEPT ![g] = "idle"]
            /\ loc' = [loc EXCEPT ![g] = IdleLoc]
    /\ UNCHANGED <<disk, sites, errNoSuchHost, errNoSuchFile, stats, writer, fieldGen,
                   lastInstall, installedFrom, nextGen, ops, conc, logvars>>

-----------------------------------------------------------------------------
(* sitelist.fetch *)

\* net.SplitHostPort(url.Host), or url.Host when it has no port
HostOf(url) == url.host.name

\* atomic.LoadUint32(&sl.devmode) == 1
FetchReloadsNever(dev) == FALSE

FetchReloads(dev) == dev = 1

\* the switch on url.Scheme
RMap(s, scheme) == IF scheme = "https" THEN s.https ELSE s.http

\* strings.HasPrefix(p, fancypath) for a cleaned path p
HasPrefix(p, fancypath) ==
    CASE fancypath = ""    -> TRUE
      [] fancypath = "/f/" -> Len(p) >= 2 /\ p[1] = "f"
      [] OTHER             -> FALSE

\* the 404 chain up to the site's own /404.html
NotFound(l) ==
    LET rmap == RMap(l.s, l.url.scheme)
    IN  IF <<"404.html">> \in DOMAIN rmap
        THEN [pc |-> "done",
              loc |-> [l EXCEPT !.res = rmap[<<"404.html">>], !.status = 404]]
        ELSE [pc |-> "fetch_nsf", loc |-> l]

\* fetch from the point where the site s is known up to its next read of
\* shared state: path.Clean, the map of the scheme, the lookup in memory, the
\* test of the from-disk prefix
ResolveFancyFirst(l, s) ==
    LET p    == Clean(l.url.path)
        rmap == RMap(s, l.url.scheme)
        l1   == [l EXCEPT !.s = s, !.p = p]
    IN  IF HasPrefix(p, s.config.General.FancyFolder)
        THEN [pc |-> "fetch_fancy", loc |-> l1]
        ELSE IF p \in DOMAIN rmap
             THEN [pc |-> "done", loc |-> [l1 EXCEPT !.res = rmap[p], !.status = 200]]
             ELSE NotFound(l1)

Resolve(l, s) ==
    LET p    == Clean(l.url.path)
        rmap == RMap(s, l.url.scheme)
        l1   == [l EXCEPT !.s = s, !.p = p]
    IN  IF p \in DOMAIN rmap
        THEN [pc |-> "done", loc |-> [l1 EXCEPT !.res = rmap[p], !.status = 200]]
        ELSE IF HasPrefix(p, s.config.General.FancyFolder)
             THEN [pc |-> "fetch_fancy", loc |-> l1]
             ELSE NotFound(l1)

\* os.Open(path.Join(sl.root, host, "fancy", p)) and x.Stat(): the file when
\* it opens and is no directory, else Nil
FancyOpen(tree, host, p) ==
    IF /\ host \in DOMAIN tree.hosts
       /\ "fancy" \in DOMAIN tree.hosts[host].sub
       /\ p \in DOMAIN tree.hosts[host].sub.fancy
       /\ tree.hosts[host].sub.fancy[p].readable
    THEN tree.hosts[host].sub.fancy[p]
    ELSE Nil

\* the streaming resource fetch makes of an open file
FancyResource(l, f) ==
    update([NewResource([fetch |-> l.n]) EXCEPT
               !.bodyReadCloser = [file |-> <<l.host, "fancy">> \o l.p, data |-> f.data],
               !.path = <<l.host, "fancy">> \o l.p,
               !.config = l.s.config,
               !.loaded = f.mtime,
               !.hash = [weak |-> <<f.mtime, PlainLen(f.data), "i">>],
               !.ghash = [weak |-> <<f.mtime, PlainLen(f.data), "g">>],
               !.fromDisk = TRUE,
               !.permitGZIP = TRUE])

\* a request arrives at sl.http and fetch starts: the host, the devmode flag
StartFetch(g, url) ==
    /\ CanStart(g)
    /\ ops' = ops + 1
    /\ loc' = [loc EXCEPT ![g] = [IdleLoc EXCEPT !.op = "fetch", !.url = url,
                                                 !.host = HostOf(url), !.n = ops + 1,
                                                 !.dev = devmode = 1,
                                                 !.ret = "fetch_host"]]
    /\ pc' = [pc EXCEPT ![g] = IF FetchReloads(devmode) THEN "load_build"
                                ELSE "fetch_host"]
    /\ UNCHANGED <<disk, sites, errNoSuchHost, errNoSuchFile, stats, devmode, writer,
                   fieldGen, lastInstall, installedFrom, nextGen, serving, conc, logvars>>

\* RLock; s, exists = sl.sites[host]; RUnlock
FetchHost(g) ==
    /\ pc[g] = "fetch_host"
    /\ CanRLock(writer)
    /\ LET l == [loc[g] EXCEPT !.seen = @ \cup {fieldGen.sites}]
           r == IF l.host \in DOMAIN sites THEN Resolve(l, sites[l.host])
                ELSE [pc |-> "fetch_default", loc |-> l]
       IN  /\ loc' = [loc EXCEPT ![g] = r.loc]
           /\ pc' = [pc EXCEPT ![g] = r.pc]
    /\ UNCHANGED <<disk, sites, errNoSuchHost, errNoSuchFile, stats, devmode, writer,
                   fieldGen, lastInstall, installedFrom, nextGen, ops, serving, conc, logvars>>

\* RLock; s, exists = sl.sites[sl.defaulthost]; RUnlock
FetchDefault(g) ==
    /\ pc[g] = "fetch_default"
    /\ CanRLock(writer)
    /\ LET l == [loc[g] EXCEPT !.seen = @ \cup {fieldGen.sites}]
           r == IF defaulthost \in DOMAIN sites THEN Resolve(l, sites[defaulthost])
                ELSE [pc |-> "fetch_nsh", loc |-> l]
       IN  /\ loc' = [loc EXCEPT ![g] = r.loc]
           /\ pc' = [pc EXCEPT ![g] = r.pc]
    /\ UNCHANGED <<disk, sites, errNoSuchHost, errNoSuchFile, stats, devmode, writer,
                   fieldGen, lastInstall, installedFrom, nextGen, ops, serving, conc, logvars>>

\* if sl.errNoSuchHost != nil {...}; return defaultNoSuchHost, 403
FetchNsh(g) ==
    /\ pc[g] = "fetch_nsh"
    /\ LET l == [loc[g] EXCEPT !.seen = @ \cup {fieldGen.errNoSuchHost}]
       IN  IF errNoSuchHost # Nil
           THEN /\ loc' = [loc EXCEPT ![g] = [l EXCEPT !.tmp = errNoSuchHost]]
                /\ pc' = [pc EXCEPT ![g] = "fetch_nsh_ret"]
           ELSE /\ loc' = [loc EXCEPT ![g] = [l EXCEPT !.res = defaultNoSuchHost,
                                                       !.status = 403]]
                /\ pc' = [pc EXCEPT ![g] = "done"]
    /\ UNCHANGED <<disk, sites, errNoSuchHost, errNoSuchFile, stats, devmode, writer,
                   fieldGen, lastInstall, installedFrom, nextGen, ops, serving, conc, logvars>>

\* return sl.errNoSuchHost, 403: the field is read a second time, without
\* the lock; a build may also reuse the value the test read
FetchNshRet(g) ==
    /\ pc[g] = "fetch_nsh_ret"
    /\ \E v \in {loc[g].tmp, errNoSuchHost} :
          loc' = [loc EXCEPT ![g].res = v, ![g].status = 403,
                             ![g].seen = @ \cup (IF v = loc[g].tmp THEN {}
                                                 ELSE {fieldGen.errNoSuchHost})]
    /\ pc' = [pc EXCEPT ![g] = "done"]
    /\ UNCHANGED <<disk, sites, errNoSuchHost, errNoSuchFile, stats, devmode, writer,
                   fieldGen, lastInstall, installedFrom, nextGen, ops, serving, conc, logvars>>

\* the from-disk branch: os.Open, x.Stat, the streaming resource
FetchFancy(g) ==
    /\ pc[g] = "fetch_fancy"
    /\ LET l == loc[g]
           f == FancyOpen(disk, l.host, l.p)
           r == IF f # Nil
                THEN [pc |-> "done",
                      loc |-> [l EXCEPT !.res = FancyResource(l, f), !.status = 200]]
                ELSE NotFound(l)
       IN  /\ loc' = [loc EXCEPT ![g] = r.loc]
           /\ pc' = [pc EXCEPT ![g] = r.pc]
    /\ UNCHANGED <<disk, sites, errNoSuchHost, errNoSuchFile, stats, devmode, writer,
                   fieldGen, lastInstall, installedFrom, nextGen, ops, serving, conc, logvars>>

\* if sl.errNoSuchFile != nil {...}; return defaultNoSuchFile, 404
FetchNsf(g) ==
    /\ pc[g] = "fetch_nsf"
    /\ LET l == [loc[g] EXCEPT !.seen = @ \cup {fieldGen.errNoSuchFile}]
       IN  IF errNoSuchFile # Nil
           THEN /\ loc' = [loc EXCEPT ![g] = [l EXCEPT !.tmp = errNoSuchFile]]
                /\ pc' = [pc EXCEPT ![g] = "fetch_nsf_ret"]
           ELSE /\ loc' = [loc EXCEPT ![g] = [l EXCEPT !.res = defaultNoSuchFile,
                                                       !.status = 404]]
                /\ pc' = [pc EXCEPT ![g] = "done"]
    /\ UNCHANGED <<disk, sites, errNoSuchHost, errNoSuchFile, stats, devmode, writer,
                   fieldGen, lastInstall, installedFrom, nextGen, ops, serving, conc, logvars>>

\* return sl.errNoSuchFile, 404: a second read without the lock, as above
FetchNsfRet(g) ==
    /\ pc[g] = "fetch_nsf_ret"
    /\ \E v \in {loc[g].tmp, errNoSuchFile} :
          loc' = [loc EXCEPT ![g].res = v, ![g].status = 404,
                             ![g].seen = @ \cup (IF v = loc[g].tmp THEN {}
                                                 ELSE {fieldGen.errNoSuchFile})]
    /\ pc' = [pc EXCEPT ![g] = "done"]
    /\ UNCHANGED <<disk, sites, errNoSuchHost, errNoSuchFile, stats, devmode, writer,
                   fieldGen, lastInstall, installedFrom, nextGen, ops, serving, conc, logvars>>

-----------------------------------------------------------------------------
(* sitelist.http after fetch: negotiation, headers, 304, body.              *)
(* A request carries req = [method, ae, inm, ims]: the method, and the     *)
(* Accept-Encoding, If-None-Match and If-Modified-Since headers (Nil when  *)
(* the header is absent).  Entity tags are the values of resource.hash and *)
(* resource.ghash; times are whole seconds.                                *)

\* If-None-Match: *
Star == [lit |-> "*"]

\* an entity tag no resource has
StaleTag == [lit |-> "W/stale"]

\* a header that is present, with its text
Text(v) == [text |-> v]

\* strings.Contains(acceptEncoding, "gzip")
ContainsGzip(ae) ==
    CASE ae.text = "deflate, gzip" -> TRUE
      [] ae.text = "gzip;q=0"      -> TRUE
      [] ae.text = "identity"      -> FALSE
      [] OTHER                     -> FALSE

\* time.Parse(time.RFC1123, v): [t, err]; the zero time is 0
ParseRFC1123(v) ==
    IF "rfc1123" \in DOMAIN v THEN [t |-> v.rfc1123, err |-> FALSE]
    ELSE [t |-> 0, err |-> TRUE]

\* t.Format(time.RFC1123)
FormatRFC1123(t) == [rfc1123 |-> t]

UseGZIPUnpermitted(r, req) == req.ae # Nil /\ ContainsGzip(req.ae)

\* the first part of the handler: useGZIP
UseGZIP(r, req) == r.permitGZIP /\ req.ae # Nil /\ ContainsGzip(req.ae)

\* the headers set before the 304 test
BaseHeaders(r, req) ==
    LET useGZIP == UseGZIP(r, req)
        hash    == IF useGZIP THEN r.ghash ELSE r.hash
    IN  (IF useGZIP THEN [h \in {"Content-Encoding"} |-> "gzip"] ELSE << >>) @@
        (IF r.cnttype # "" THEN [h \in {"Content-Type"} |-> r.cnttype] ELSE << >>) @@
        [h \in {"Date"} |-> "now"] @@
        [h \in {"Last-Modified"} |-> FormatRFC1123(r.loaded)] @@
        [h \in {"Cache-Control"} |-> r.cache] @@
        [h \in {"Vary"} |-> "Accept-Encoding"] @@
        [h \in {"Etag"} |-> hash]

\* a 304 test that does not look at the status of fetch
CacheResponseAnyStatus(r, status, req) ==
    IF req.inm # Nil
    THEN req.inm = r.hash \/ req.inm = Star
    ELSE /\ req.ims # Nil
         /\ LET imsdate == ParseRFC1123(req.ims)
            IN  ~imsdate.err /\ imsdate.t # 0 /\ imsdate.t > r.loaded

\* a 304 test that lets either header decide
CacheResponseEither(r, status, req) ==
    /\ status = 200
    /\ \/ req.inm # Nil /\ (req.inm = r.hash \/ req.inm = Star)
       \/ /\ req.ims # Nil
          /\ LET imsdate == ParseRFC1123(req.ims)
             IN  ~imsdate.err /\ imsdate.t # 0 /\ imsdate.t > r.loaded

\* cacheResponse
CacheResponse(r, status, req) ==
    /\ status = 200
    /\ IF req.inm # Nil
       THEN req.inm = r.hash \/ req.inm = Star
       ELSE /\ req.ims # Nil
            /\ LET imsdate == ParseRFC1123(req.ims)
               IN  ~imsdate.err /\ imsdate.t # 0 /\ imsdate.t > r.loaded

\* a handler that returns for HEAD before it sets Content-Length
ResponseHeadEarly(r, status, req) ==
    IF r = Nil THEN [panic |-> TRUE]
    ELSE
    LET useGZIP == UseGZIP(r, req)
        body    == IF useGZIP THEN r.gzip ELSE r.body
        h       == BaseHeaders(r, req)
        head    == req.method = "HEAD"
    IN  IF CacheResponse(r, status, req)
        THEN [panic |-> FALSE, status |-> 304, header |-> h, body |-> Nil,
              closed |-> FALSE, access |-> <<304>>]
        ELSE IF r.bodyReadCloser # Nil
        THEN [panic |-> FALSE, status |-> status, header |-> h,
              body |-> IF head THEN Nil
                       ELSE [stream |-> r.bodyReadCloser.data, gzip |-> useGZIP],
              closed |-> ~head, access |-> <<status>>]
        ELSE [panic |-> FALSE, status |-> status,
              header |-> IF head THEN h
                         ELSE h @@ [k \in {"Content-Length"} |-> BufLen(body)],
              body |-> IF head THEN Nil ELSE body,
              closed |-> FALSE, access |-> <<status>>]

\* what the handler writes for the result (r, status) of fetch:
\*   [status, header, body, closed, access], body Nil when none is written,
\*   closed telling whether r.bodyReadCloser was closed, access the statuses
\*   of the records access() wrote, in order; [panic] when r is nil (the
\*   handler dereferences it before it writes or logs anything)
Response(r, status, req) ==
    IF r = Nil THEN [panic |-> TRUE]
    ELSE
    LET useGZIP == UseGZIP(r, req)
        body    == IF useGZIP THEN r.gzip ELSE r.body
        h       == BaseHeaders(r, req)
        head    == req.method = "HEAD"
    IN  IF CacheResponse(r, status, req)
        THEN [panic |-> FALSE, status |-> 304, header |-> h, body |-> Nil,
              closed |-> FALSE, access |-> <<304>>]
        ELSE IF r.bodyReadCloser # Nil
        THEN [panic |-> FALSE, status |-> status, header |-> h,
              body |-> IF head THEN Nil
                       ELSE [stream |-> r.bodyReadCloser.data, gzip |-> useGZIP],
              closed |-> ~head, access |-> <<status>>]
        ELSE [panic |-> FALSE, status |-> status,
              header |-> h @@ [k \in {"Content-Length"} |-> BufLen(body)],
              body |-> IF head THEN Nil ELSE body,
              closed |-> FALSE, access |-> <<status>>]

\* the conditional headers a client may send for resource r
Conditionals(r) ==
    LET tags  == {r.hash, r.ghash, Star, StaleTag} \ {Nil}
        dates == {FormatRFC1123(t) : t \in {0, r.loaded - 1, r.loaded, r.loaded + 1}}
                    \cup {[garbage |-> TRUE]}
    IN  {[inm |-> Nil, ims |-> Nil]}
        \cup {[inm |-> t, ims |-> Nil] : t \in tags}
        \cup {[inm |-> Nil, ims |-> d] : d \in dates}
        \cup {[inm |-> StaleTag, ims |-> FormatRFC1123(r.loaded + 1)],
              [inm |-> Star, ims |-> FormatRFC1123(r.loaded - 1)]}

\* the requests of the model: one in the concurrent runs; else every
\* conditional as a GET with and without gzip accepted, and the methods and
\* the other Accept-Encoding values on a few of them
Headers(c, r) ==
    IF c \/ r = Nil
    THEN {[method |-> "GET", ae |-> Text("deflate, gzip"), inm |-> Nil, ims |-> Nil]}
    ELSE {[method |-> "GET", ae |-> ae, inm |-> cnd.inm, ims |-> cnd.ims] :
            ae \in {Nil, Text("deflate, gzip")}, cnd \in Conditionals(r)}
         \cup {[method |-> "HEAD", ae |-> ae, inm |-> inm, ims |-> Nil] :
                 ae \in {Nil, Text("deflate, gzip")}, inm \in {Nil, Star}}
         \cup {[method |-> "GET", ae |-> ae, inm |-> Nil, ims |-> Nil] :
                 ae \in {Text("identity"), Text("gzip;q=0")}}

\* the methods other than GET and HEAD that the model's clients use
OtherMethods == {"POST"}

\* sl.http on a request whose method is neither GET nor HEAD: the handler
\* answers 405, logs it and returns; fetch is not called
MethodNotAllowed(g, method) ==
    /\ CanStart(g)
    /\ ops' = ops + 1
    /\ loc' = [loc EXCEPT ![g] =
                  [IdleLoc EXCEPT
                      !.op = "refuse", !.n = ops + 1,
                      !.req = [method |-> method, ae |-> Nil, inm |-> Nil, ims |-> Nil],
                      !.resp = [panic |-> FALSE, status |-> 405,
                                header |-> [k \in {"Content-Type"} |-> "text/plain"],
                                body |-> [lit |-> "method not allowed"],
                                closed |-> FALSE, access |-> <<405>>]]]
    /\ pc' = [pc EXCEPT ![g] = "refused"]
    /\ UNCHANGED <<disk, sites, errNoSuchHost, errNoSuchFile, stats, devmode, writer,
                   fieldGen, lastInstall, installedFrom, nextGen, serving, conc, logvars>>

\* the rest of sl.http, once fetch has returned
Respond(g) ==
    /\ pc[g] = "done"
    /\ loc[g].op = "fetch"
    /\ \E req \in Headers(conc, loc[g].res) :
          loc' = [loc EXCEPT ![g].req = req,
                             ![g].resp = Response(loc[g].res, loc[g].status, req)]
    /\ pc' = [pc EXCEPT ![g] = "responded"]
    /\ UNCHANGED <<disk, sites, errNoSuchHost, errNoSuchFile, stats, devmode, writer,
                   fieldGen, lastInstall, installedFrom, nextGen, ops, serving, conc, logvars>>

-----------------------------------------------------------------------------
(* The command server (sitelist.cmdhttp) and the environment *)

\* /devel: sl.dev(true)
CmdDevel(g) ==
    /\ CanStart(g)
    /\ ops' = ops + 1
    /\ devmode' = 1
    /\ UNCHANGED <<disk, sites, errNoSuchHost, errNoSuchFile, stats, writer, fieldGen,
                   lastInstall, installedFrom, nextGen, serving, pc, loc, conc, logvars>>

\* /prod: sl.dev(false), then sl.load()
CmdProd(g) ==
    /\ CanStart(g)
    /\ ops' = ops + 1
    /\ devmode' = 0
    /\ loc' = [loc EXCEPT ![g] = [IdleLoc EXCEPT !.op = "prod", !.n = ops + 1,
                                                 !.ret = "done"]]
    /\ pc' = [pc EXCEPT ![g] = "load_build"]
    /\ UNCHANGED <<disk, sites, errNoSuchHost, errNoSuchFile, stats, writer, fieldGen,
                   lastInstall, installedFrom, nextGen, serving, conc, logvars>>

\* /reload: sl.load()
CmdReload(g) ==
    /\ CanStart(g)
    /\ ops' = ops + 1
    /\ loc' = [loc EXCEPT ![g] = [IdleLoc EXCEPT !.op = "reload", !.n = ops + 1,
                                                 !.ret = "done"]]
    /\ pc' = [pc EXCEPT ![g] = "load_build"]
    /\ UNCHANGED <<disk, sites, errNoSuchHost, errNoSuchFile, stats, devmode, writer,
                   fieldGen, lastInstall, installedFrom, nextGen, serving, conc, logvars>>

\* /status: the request arrives
CmdStatus(g) ==
    /\ CanStart(g)
    /\ ops' = ops + 1
    /\ loc' = [loc EXCEPT ![g] = [IdleLoc EXCEPT !.op = "status", !.n = ops + 1,
                                                 !.ret = "done"]]
    /\ pc' = [pc EXCEPT ![g] = "status"]
    /\ UNCHANGED <<disk, sites, errNoSuchHost, errNoSuchFile, stats, devmode, writer,
                   fieldGen, lastInstall, installedFrom, nextGen, serving, conc, logvars>>

\* the text status() formats, field by field
StatusText ==
    [nsites       |-> Cardinality(DOMAIN sites),
     sites        |-> [h \in DOMAIN sites |->
                         [http  |-> Cardinality(DOMAIN sites[h].http),
                          https |-> Cardinality(DOMAIN sites[h].https)]],
     devmode      |-> devmode = 1,
     noSuchHost   |-> errNoSuchHost = Nil,
     noSuchFile   |-> errNoSuchFile = Nil,
     plainBytes   |-> stats.plainBytesInMemory,
     gzipBytes    |-> stats.gzipBytesInMemory,
     files        |-> stats.filesInMemory]

\* status(): RLock, the reads, the deferred RUnlock
Status(g) ==
    /\ pc[g] = "status"
    /\ CanRLock(writer)
    /\ loc' = [loc EXCEPT ![g].out = StatusText,
                          ![g].seen = {fieldGen.sites, fieldGen.errNoSuchHost,
                                       fieldGen.errNoSuchFile, fieldGen.stats}]
    /\ pc' = [pc EXCEPT ![g] = "done"]
    /\ UNCHANGED <<disk, sites, errNoSuchHost, errNoSuchFile, stats, devmode, writer,
                   fieldGen, lastInstall, installedFrom, nextGen, ops, serving, conc, logvars>>

\* the handler returns
Return(g) ==
    /\ \/ pc[g] = "done" /\ loc[g].op # "fetch"
       \/ pc[g] = "responded"
       \/ pc[g] = "refused"
    /\ pc' = [pc EXCEPT ![g] = "idle"]
    /\ loc' = [loc EXCEPT ![g] = IdleLoc]
    /\ UNCHANGED <<disk, sites, errNoSuchHost, errNoSuchFile, stats, devmode, writer,
                   fieldGen, lastInstall, installedFrom, nextGen, ops, serving, conc, logvars>>

\* somebody edits the content tree
Edit(tree) ==
    /\ serving
    /\ ops < (IF conc THEN MaxOps ELSE MaxSeqOps)
    /\ tree # disk
    /\ disk' = tree
    /\ ops' = ops + 1
    /\ loc' = [g \in Procs |-> IF pc[g] = "idle" THEN loc[g]
                                ELSE [loc[g] EXCEPT !.edited = TRUE]]
    /\ UNCHANGED <<sites, errNoSuchHost, errNoSuchFile, stats, devmode, writer,
                   fieldGen, lastInstall, installedFrom, nextGen, serving, pc, conc, logvars>>

Next ==
    \/ \E g \in Procs : LoadBuild(g)
    \/ \E g \in Procs : LoadLock(g)
    \/ \E g \in Procs : LoadNsf(g)
    \/ \E g \in Procs : LoadNsh(g)
    \/ \E g \in Procs : MainLoaded(g)
    \/ \E g \in Procs, method \in OtherMethods : MethodNotAllowed(g, method)
    \/ \E g \in Procs, url \in Requests(conc) : StartFetch(g, url)
    \/ \E g \in Procs : FetchHost(g)
    \/ \E g \in Procs : FetchDefault(g)
    \/ \E g \in Procs : FetchNsh(g)
    \/ \E g \in Procs : FetchNshRet(g)
    \/ \E g \in Procs : FetchFancy(g)
    \/ \E g \in Procs : FetchNsf(g)
    \/ \E g \in Procs : FetchNsfRet(g)
    \/ \E g \in Procs : Respond(g)
    \/ \E g \in Procs : CmdDevel(g)
    \/ \E g \in Procs : CmdProd(g)
    \/ \E g \in Procs : CmdReload(g)
    \/ \E g \in Procs : CmdStatus(g)
    \/ \E g \in Procs : Status(g)
    \/ \E g \in Procs : Return(g)
    \/ \E tree \in Trees(conc) : Edit(tree)

Spec == Init /\ [][Next]_vars

SpecSeq == InitSeq /\ [][Next]_vars

-----------------------------------------------------------------------------
(* The rotating log writer (log.go).                                       *)
(*   rw      = [fp, wg, count, Queue, closed, MaxLines, entry]: fp is Nil  *)
(*             or a file [open]; Queue holds the lines sent and not yet    *)
(*             received; closed tells whether the channel is closed;       *)
(*             entry is the line Serve has in hand                         *)
(*   logdir  = [exists, cur, archives]: whether Filename exists, the       *)
(*             lines in it, and the lines of each Filename.N.gz that       *)
(*             exists; a line is the number of the Write that sent it,     *)
(*             or 0 for a line that no Write of this run sent              *)
(*   lpc     = [serve, main, writer]: where Serve, main (Shutdown) and the *)
(*             caller of Write are                                         *)
(*   loghist = [sent, flushed, pending, panicked, consumed, dropped]: the  *)
(*             lines Write has queued, those Serve has written to the      *)
(*             file, the lines not yet written when Shutdown closed the    *)
(*             file, whether a Write hit the closed queue, the lines       *)
(*             Serve has received, and whether a rotation has replaced     *)
(*             an existing Filename.10.gz                                  *)

\* the loop of rotate over i = 9 .. 1: Filename.i.gz, when it exists, is
\* renamed to Filename.(i+1).gz
RECURSIVE ShiftArchives(_, _)
ShiftArchives(A, i) ==
    IF i = 0 THEN A
    ELSE ShiftArchives(IF i \in DOMAIN A
                       THEN [n \in (DOMAIN A \ {i}) \cup {i + 1} |->
                                IF n = i + 1 THEN A[i] ELSE A[n]]
                       ELSE A, i - 1)

\* rotate: [w, dir, err]; ok tells whether os.Create succeeds
rotate(ww, dir, ok) ==
    IF ww.fp # Nil /\ ~ww.fp.open
    THEN [w |-> [ww EXCEPT !.fp = Nil], dir |-> dir, err |-> TRUE]
    ELSE [w   |-> [ww EXCEPT !.fp = IF ok THEN [open |-> TRUE] ELSE Nil, !.count = 0],
          dir |-> [exists   |-> dir.exists \/ ok,
                   cur      |-> IF ok THEN << >> ELSE dir.cur,
                   archives |-> LET A == ShiftArchives(dir.archives, 9)
                                IN  [n \in DOMAIN A \cup {1} |->
                                        IF n = 1 THEN dir.cur ELSE A[n]]],
          err |-> ~ok]

\* NewRotateWriter(name, maxlines) over directory dir, the file opening and
\* os.Create succeeding: [w, dir, err]
NewRotateWriter(dir, maxlines) ==
    LET lc == Len(dir.cur)
        w0 == [fp |-> [open |-> TRUE], wg |-> 0, count |-> 0, Queue |-> << >>,
               closed |-> FALSE, MaxLines |-> maxlines, entry |-> 0]
    IN  IF lc >= maxlines
        THEN rotate([w0 EXCEPT !.fp = Nil], [dir EXCEPT !.exists = TRUE], TRUE)
        ELSE [w |-> w0, dir |-> [dir EXCEPT !.exists = TRUE, !.cur = Append(@, 0)],
              err |-> FALSE]

\* the directories main may find: none of the files, or the logfile and two
\* archives of an earlier run
LogDirs == {[exists |-> FALSE, cur |-> << >>, archives |-> << >>],
            [exists |-> TRUE, cur |-> <<0>>, archives |-> <<<<0>>, <<0>>>>]}

\* the values of conf.LogLines
LogLines == {0, 1, 2}

\* main has made the RotateWriter, deferred Shutdown and started the
\* goroutine that will call Serve; the web server is not looked at
InitLog ==
    /\ InitWith(FALSE)
    /\ disk = Base
    /\ \E dir \in LogDirs, maxlines \in LogLines :
          /\ rw = NewRotateWriter(dir, maxlines).w
          /\ logdir = NewRotateWriter(dir, maxlines).dir
    /\ lpc = [serve |-> "start", main |-> "running", writer |-> "idle"]
    /\ loghist = [sent |-> 0, flushed |-> 0, pending |-> 0, panicked |-> FALSE,
                  consumed |-> 0, dropped |-> FALSE]

\* the logger calls Write with the next line
WriteCall ==
    /\ lpc.writer = "idle"
    /\ loghist.sent < MaxWrites
    /\ lpc' = [lpc EXCEPT !.writer = "send"]
    /\ UNCHANGED <<rw, logdir, loghist, webvars>>

\* Write: w.Queue <- output, which blocks while the queue is full and
\* panics when the channel is closed; then Write returns
Write ==
    /\ lpc.writer = "send"
    /\ rw.closed \/ Len(rw.Queue) < QueueCap
    /\ IF rw.closed
       THEN /\ loghist' = [loghist EXCEPT !.panicked = TRUE]
            /\ lpc' = [lpc EXCEPT !.writer = "panicked"]
            /\ UNCHANGED rw
       ELSE /\ rw' = [rw EXCEPT !.Queue = Append(@, loghist.sent + 1)]
            /\ loghist' = [loghist EXCEPT !.sent = @ + 1]
            /\ lpc' = [lpc EXCEPT !.writer = "idle"]
    /\ UNCHANGED <<logdir, webvars>>

\* Serve up to its loop: w.wg.Add(1)
ServeAdd ==
    /\ lpc.serve = "start"
    /\ rw' = [rw EXCEPT !.wg = @ + 1]
    /\ lpc' = [lpc EXCEPT !.serve = "range"]
    /\ UNCHANGED <<logdir, loghist, webvars>>

\* for entry := range w.Queue: the next line is received
ServeReceive ==
    /\ lpc.serve = "range"
    /\ rw.Queue # << >>
    /\ rw' = [rw EXCEPT !.Queue = Tail(@), !.entry = Head(rw.Queue)]
    /\ lpc' = [lpc EXCEPT !.serve = "entry"]
    /\ loghist' = [loghist EXCEPT !.consumed = @ + 1]
    /\ UNCHANGED <<logdir, webvars>>

\* the body of the loop: rotate when there is no file or the file is full,
\* count the line, write it; an error of rotate or of the write ends Serve
\* without w.wg.Done()
ServeEntry(ok) ==
    /\ lpc.serve = "entry"
    /\ LET full == rw.fp = Nil \/ rw.count > rw.MaxLines
           rt   == IF full THEN rotate(rw, logdir, ok)
                   ELSE [w |-> rw, dir |-> logdir, err |-> FALSE]
           werr == ~rt.err /\ ~rt.w.fp.open
           drop == /\ full /\ ~(rw.fp # Nil /\ ~rw.fp.open)
                   /\ {9, 10} \subseteq DOMAIN logdir.archives
           hist == [loghist EXCEPT !.dropped = @ \/ drop]
       IN  IF rt.err
           THEN /\ rw' = rt.w
                /\ logdir' = rt.dir
                /\ lpc' = [lpc EXCEPT !.serve = "failed"]
                /\ loghist' = hist
           ELSE /\ rw' = [rt.w EXCEPT !.count = @ + 1]
                /\ logdir' = IF werr THEN rt.dir
                             ELSE [rt.dir EXCEPT !.cur = Append(@, rw.entry)]
                /\ lpc' = [lpc EXCEPT !.serve = IF werr THEN "failed" ELSE "range"]
                /\ loghist' = IF werr THEN hist
                              ELSE [hist EXCEPT !.flushed = @ + 1]
    /\ UNCHANGED webvars

\* the loop ends, the channel being closed and drained: w.wg.Done()
ServeDone ==
    /\ lpc.serve = "range"
    /\ rw.Queue = << >>
    /\ rw.closed
    /\ rw' = [rw EXCEPT !.wg = @ - 1]
    /\ lpc' = [lpc EXCEPT !.serve = "returned"]
    /\ UNCHANGED <<logdir, loghist, webvars>>

\* main returns and the deferred Shutdown runs: close(w.Queue)
ShutdownClose ==
    /\ lpc.main = "running"
    /\ rw' = [rw EXCEPT !.closed = TRUE]
    /\ lpc' = [lpc EXCEPT !.main = "wait"]
    /\ UNCHANGED <<logdir, loghist, webvars>>

\* w.wg.Wait() returns
ShutdownWait ==
    /\ lpc.main = "wait"
    /\ rw.wg = 0
    /\ lpc' = [lpc EXCEPT !.main = "close"]
    /\ UNCHANGED <<rw, logdir, loghist, webvars>>

\* w.fp.Close()
ShutdownFileClose ==
    /\ lpc.main = "close"
    /\ rw' = [rw EXCEPT !.fp = IF @ = Nil THEN Nil ELSE [open |-> FALSE]]
    /\ lpc' = [lpc EXCEPT !.main = "exited"]
    /\ loghist' = [loghist EXCEPT !.pending = loghist.sent - loghist.flushed]
    /\ UNCHANGED <<logdir, webvars>>

NextLog ==
    \/ WriteCall
    \/ Write
    \/ ServeAdd
    \/ ServeReceive
    \/ \E ok \in BOOLEAN : ServeEntry(ok)
    \/ ServeDone
    \/ ShutdownClose
    \/ ShutdownWait
    \/ ShutdownFileClose

SpecLog == InitLog /\ [][NextLog]_vars

\* the goroutines that run Serve and Shutdown and the one inside Write are
\* scheduled as long as they can take a step; whether main returns and
\* whether the logger is called again is left open
ServeStep == ServeAdd \/ ServeReceive \/ (\E ok \in BOOLEAN : ServeEntry(ok)) \/ ServeDone

ShutdownStep == ShutdownWait \/ ShutdownFileClose

SpecLogFair ==
    /\ InitLog /\ [][NextLog]_vars
    /\ WF_vars(ServeStep)
    /\ WF_vars(ShutdownStep)
    /\ WF_vars(Write)

-----------------------------------------------------------------------------
(* Vocabulary of the properties *)

\* goroutine g has run fetch to its return and holds the result
FetchDone(g) == pc[g] = "done" /\ loc[g].op = "fetch"

\* the load pass that allocated resource r, or 0 (a built-in or streaming one)
PassOf(r) == IF r # Nil /\ "gen" \in DOMAIN r.id THEN r.id.gen ELSE 0

\* the resources published in the site maps of a host map
Published(ss) ==
    UNION {{ss[h].http[q] : q \in DOMAIN ss[h].http} \cup
           {ss[h].https[q] : q \in DOMAIN ss[h].https} : h \in DOMAIN ss}

\* the file at root/<host>/<dir>/<path> of the tree, or Nil
FileAt(tree, host, dir, path) ==
    IF /\ host \in DOMAIN tree.hosts
       /\ dir \in DOMAIN tree.hosts[host].sub
       /\ path \in DOMAIN tree.hosts[host].sub[dir]
    THEN tree.hosts[host].sub[dir][path]
    ELSE Nil

-----------------------------------------------------------------------------
(* C1: every value one fetch call uses (the host map at each of its        *)
(* lookups, the global 'no such host' and 'no such file' pages) was        *)
(* written by one and the same install.                                    *)
C1_FetchOneGeneration ==
    \A g \in Procs : FetchDone(g) => Cardinality(loc[g].seen) <= 1

(* C2: a load pass that returns an error writes no registry field (host    *)
(* map, global pages, statistics), nothing it built is reachable from the  *)
(* registry, and the fetch that ran it resolves with values of other       *)
(* passes only.                                                            *)
C2_FailedLoadInstallsNothing ==
    \A g \in Procs :
        (loc[g].ld # Nil /\ loc[g].ld.err) =>
            /\ loc[g].ld.gen \notin {fieldGen.sites, fieldGen.errNoSuchFile,
                                     fieldGen.errNoSuchHost, fieldGen.stats, lastInstall}
            /\ \A r \in Published(sites) \cup {errNoSuchHost, errNoSuchFile} :
                   PassOf(r) # loc[g].ld.gen
            /\ loc[g].ld.gen \notin loc[g].seen
            /\ PassOf(loc[g].res) # loc[g].ld.gen

\* a development-mode fetch has returned after its load failed on host b's
\* unreadable file, with host a's site already built by that pass
C2_Witness ==
    \E g \in Procs :
        /\ FetchDone(g) /\ loc[g].dev
        /\ loc[g].ld # Nil /\ loc[g].ld.err
        /\ DOMAIN loc[g].ld.sites # {}
        /\ loc[g].res # Nil

(* C3: when no install is in progress, host map, global pages and          *)
(* statistics are all those of the load pass whose install step ran last,  *)
(* and every published resource was built by that pass.                    *)
C3_LastInstallWins ==
    writer = "none" =>
        /\ fieldGen.sites = lastInstall
        /\ fieldGen.errNoSuchFile = lastInstall
        /\ fieldGen.errNoSuchHost = lastInstall
        /\ fieldGen.stats = lastInstall
        /\ \A r \in Published(sites) : PassOf(r) = lastInstall
        /\ \A r \in {errNoSuchHost, errNoSuchFile} \ {Nil} : PassOf(r) = lastInstall

\* two overlapping loads have both returned, and the one that started first
\* installed last
C3_Witness ==
    \E g, h \in Procs :
        /\ pc[g] = "done" /\ pc[h] = "done"
        /\ loc[g].ld # Nil /\ loc[h].ld # Nil
        /\ ~loc[g].ld.err /\ ~loc[h].ld.err
        /\ loc[g].ld.gen < loc[h].ld.gen
        /\ lastInstall = loc[g].ld.gen
        /\ writer = "none"

\* a development-mode fetch of /new.html on host a has returned, the file is
\* in the tree and the tree was not edited since the fetch started
NewFileFetched(g) ==
    /\ FetchDone(g) /\ loc[g].dev
    /\ loc[g].host = "a" /\ loc[g].url.scheme = "http"
    /\ loc[g].url.path = <<"new.html">>
    /\ ~loc[g].edited
    /\ disk.listable
    /\ FileAt(disk, "a", "http", <<"new.html">>) # Nil

ServesNewFile(g) ==
    /\ loc[g].status = 200
    /\ loc[g].res # Nil
    /\ loc[g].res.body # Nil
    /\ loc[g].res.body.data = PlainBytes(FileAt(disk, "a", "http", <<"new.html">>).data)

C5_FetchTotal ==
    \A g \in Procs :
        FetchDone(g) => loc[g].res # Nil /\ loc[g].status \in {200, 403, 404}

(* C6: a request whose host (or else the default host) is in the host map  *)
(* is never answered 403; one whose host and default host are both absent  *)
(* is answered 403 with the custom 'no such host' page when one is         *)
(* installed and with the built-in one otherwise.                          *)
C6_HostResolution ==
    \A g \in Procs :
        FetchDone(g) =>
            /\ loc[g].s # Nil => loc[g].status # 403
            /\ loc[g].s = Nil =>
                  /\ loc[g].status = 403
                  /\ IF loc[g].tmp # Nil
                     THEN loc[g].res # Nil /\ PassOf(loc[g].res) # 0
                          /\ loc[g].res.path = <<"403.html">>
                     ELSE loc[g].res = defaultNoSuchHost

(* C7: a fetch that resolved a site and found the path neither in the map  *)
(* of the scheme nor on disk answers 404 with the site's own /404.html of  *)
(* that map, else the custom global 'no such file' page when one is        *)
(* installed, else the built-in one.                                       *)
C7_NotFoundChain ==
    \A g \in Procs :
        (FetchDone(g) /\ loc[g].s # Nil /\ loc[g].status # 200) =>
            LET rmap == RMap(loc[g].s, loc[g].url.scheme)
            IN  /\ loc[g].status = 404
                /\ IF <<"404.html">> \in DOMAIN rmap
                   THEN loc[g].res = rmap[<<"404.html">>]
                   ELSE IF loc[g].tmp # Nil
                        THEN loc[g].res # Nil /\ PassOf(loc[g].res) # 0
                             /\ loc[g].res.path = <<"404.html">>
                        ELSE loc[g].res = defaultNoSuchFile

\* a fetch has returned for a resolved site, the tree unedited since it began
SiteFetched(g) == FetchDone(g) /\ loc[g].s # Nil /\ ~loc[g].edited

UnderFancy(g) == HasPrefix(loc[g].p, loc[g].s.config.General.FancyFolder)

InMemory(g) == loc[g].p \in DOMAIN RMap(loc[g].s, loc[g].url.scheme)

\* the file of the request's host below its fancy directory opens
OnDisk(g) == FancyOpen(disk, loc[g].host, loc[g].p) # Nil

Streams(g) ==
    /\ loc[g].status = 200
    /\ loc[g].res # Nil
    /\ loc[g].res.fromDisk
    /\ loc[g].res.bodyReadCloser # Nil

DiskFetched(g) == FetchDone(g) /\ loc[g].res # Nil /\ loc[g].res.fromDisk

(* C9, as stated: every resource fetch makes for a fancy path served from  *)
(* disk carries the no-cache directive, whatever the cache policy.         *)
C9_DiskNoCache ==
    \A g \in Procs : DiskFetched(g) => loc[g].res.cache = NoCache

(* C9, amended: such a resource carries no-cache exactly when the policy   *)
(* of the site sets NoCacheFromDisk or the duration for it (that of its    *)
(* extension, else the default duration) is zero; otherwise it carries     *)
(* max-age of that duration.                                               *)
C9_DiskCachePolicy ==
    \A g \in Procs :
        DiskFetched(g) =>
            LET cc  == loc[g].s.config.Cache
                ext == PathExt(loc[g].res.path)
                d   == IF ext \in DOMAIN cc.CacheTimes THEN cc.CacheTimes[ext]
                       ELSE cc.DefaultCacheTime
            IN  loc[g].res.cache =
                    IF cc.NoCacheFromDisk \/ d = 0 THEN NoCache
                    ELSE [directive |-> "public, max-age=", seconds |-> d \div 10]

\* a resource served from disk under a policy without NoCacheFromDisk
C9_Witness ==
    \E g \in Procs :
        /\ DiskFetched(g)
        /\ ~loc[g].s.config.Cache.NoCacheFromDisk
        /\ loc[g].res.cache # NoCache

SameContent(r1, r2) == r1.body.data = r2.body.data

Live ==
    Published(sites) \cup ({errNoSuchHost, errNoSuchFile} \ {Nil})
        \cup {loc[g].res : g \in {h \in Procs : DiskFetched(h)}}

\* the rule of the policy: origin class, minimum size, blacklist, and the
\* gzip size times the configured minimum ratio (in tenths) below the plain
\* size; a streaming resource has no sizes
GzipByPolicy(r) ==
    LET cc  == r.config.Compression
        min == IF cc.MinSize = 0 THEN DefaultMinSize ELSE cc.MinSize
    IN  /\ ~(r.fromDisk /\ cc.NoCompressFromDisk)
        /\ ~(~r.fromDisk /\ cc.NoCompressFromMem)
        /\ PathExt(r.path) \notin cc.Blacklist
        /\ r.body # Nil =>
              /\ BufLen(r.body) >= min
              /\ GzLen(r.body.data.of) * cc.MinRatio < BufLen(r.body) * 10

(* C11: a resource permits gzip iff its origin class is not compression-   *)
(* disabled, its plain size is at least the minimum size, its extension is *)
(* not blacklisted, and its gzip size times the minimum ratio configured   *)
(* for its host is below its plain size.                                   *)
C11_GzipByPolicy ==
    \A r \in Live : r.permitGZIP <=> GzipByPolicy(r)

\* the handler has written its response for the result of fetch
Responded(g) == pc[g] = "responded" /\ ~loc[g].resp.panic

\* gzip is negotiated: the resource permits it and Accept-Encoding names it
Negotiated(g) ==
    /\ loc[g].res.permitGZIP
    /\ loc[g].req.ae # Nil
    /\ ContainsGzip(loc[g].req.ae)

\* the entity tag of the variant selected for the request
SelectedTag(g) == IF Negotiated(g) THEN loc[g].res.ghash ELSE loc[g].res.hash

NotModified(g) == loc[g].resp.status = 304 /\ loc[g].resp.body = Nil

(* C12: a request whose fetch status is 200 and whose If-None-Match is the *)
(* entity tag of the variant selected for it, or "*", is answered 304      *)
(* without a body.                                                         *)
C12_IfNoneMatch ==
    \A g \in Procs :
        (Responded(g) /\ loc[g].status = 200
            /\ loc[g].req.inm \in {SelectedTag(g), Star}) => NotModified(g)

(* C13: a 304 response carries neither Content-Length nor                  *)
(* Content-Encoding.                                                       *)
C13_BareNotModified ==
    \A g \in Procs :
        (Responded(g) /\ loc[g].resp.status = 304) =>
            /\ "Content-Length" \notin DOMAIN loc[g].resp.header
            /\ "Content-Encoding" \notin DOMAIN loc[g].resp.header

(* C14: with fetch status 200 and no If-None-Match, an If-Modified-Since   *)
(* that parses to a date D yields 304 exactly when the load time of the    *)
(* resource is not after D (equal included); one that does not parse       *)
(* yields the full response.                                               *)
C14_IfModifiedSince ==
    \A g \in Procs :
        (Responded(g) /\ loc[g].status = 200
            /\ loc[g].req.inm = Nil /\ loc[g].req.ims # Nil) =>
            IF "rfc1123" \in DOMAIN loc[g].req.ims
            THEN NotModified(g) <=> loc[g].res.loaded <= loc[g].req.ims.rfc1123
            ELSE loc[g].resp.status = 200

\* a response other than 304 for a resource held in memory
FullFromMemory(g) ==
    /\ Responded(g)
    /\ loc[g].resp.status # 304
    /\ loc[g].res.bodyReadCloser = Nil

(* C15: in a response other than 304 for an in-memory resource, gzip is    *)
(* selected iff the resource permits it and Accept-Encoding contains       *)
(* "gzip"; Content-Encoding is present iff gzip is selected, and Etag,     *)
(* Content-Length and the body are the tag, the length and the buffer of   *)
(* the selected variant.                                                   *)
C15_OneVariant ==
    \A g \in Procs :
        FullFromMemory(g) =>
            LET h   == loc[g].resp.header
                buf == IF Negotiated(g) THEN loc[g].res.gzip ELSE loc[g].res.body
            IN  /\ buf # Nil
                /\ buf.data.enc = (IF Negotiated(g) THEN "gzip" ELSE "plain")
                /\ ("Content-Encoding" \in DOMAIN h) <=> Negotiated(g)
                /\ Negotiated(g) => h["Content-Encoding"] = "gzip"
                /\ h["Etag"] = SelectedTag(g)
                /\ h["Content-Length"] = ByteLen(buf.data)
                /\ loc[g].resp.body = (IF loc[g].req.method = "HEAD" THEN Nil ELSE buf)
                /\ loc[g].resp.status = loc[g].status

\* a GET answered 200 with the gzip buffer, and the plain one refused to a
\* request that names gzip
C15_Witness ==
    \E g \in Procs :
        /\ FullFromMemory(g) /\ Negotiated(g)
        /\ loc[g].req.method = "GET"
        /\ loc[g].resp.status = 200
        /\ loc[g].resp.body = loc[g].res.gzip

\* every directory of the tree lists and every file of it reads
ContentLoads(tree) ==
    /\ tree.listable
    /\ tree.g403 # Nil => tree.g403.readable
    /\ tree.g404 # Nil => tree.g404.readable
    /\ \A h \in DOMAIN tree.hosts :
          /\ tree.hosts[h].listable
          /\ \A d \in DOMAIN tree.hosts[h].sub :
                \A q \in DOMAIN tree.hosts[h].sub[d] : tree.hosts[h].sub[d][q].readable

\* goroutine g holds the result of a load pass over the tree as it is
Loaded(g) == loc[g].ld # Nil /\ ~loc[g].edited /\ pc[g] # "load_build"

\* host h is built by the pass of g, with the default policy when its
\* config.toml is not a decoded one
HostBuilt(g, h) ==
    /\ h \in DOMAIN loc[g].ld.sites
    /\ disk.hosts[h].conf.kind # "toml" =>
          loc[g].ld.sites[h].config = DefaultSiteConfig
    /\ \A d \in DOMAIN disk.hosts[h].sub \cap {"http", "common"} :
          \A q \in DOMAIN disk.hosts[h].sub[d] : q \in DOMAIN loc[g].ld.sites[h].http

(* C16, as stated: a policy file that is missing, unreadable or            *)
(* unparseable never fails the load: over a tree whose content reads, the  *)
(* load succeeds and every host is built, with the default policy in place *)
(* of such a file.                                                         *)
C16_PolicyNeverFatal ==
    \A g \in Procs :
        (Loaded(g) /\ ContentLoads(disk)) =>
            /\ ~loc[g].ld.err
            /\ \A h \in DOMAIN disk.hosts : HostBuilt(g, h)

(* C16, amended: a policy file that cannot be read (missing or unreadable) *)
(* does not fail the load, the default policy is substituted and the host  *)
(* is built; a policy file that is read but does not parse fails the whole *)
(* load, which then installs nothing.                                      *)
C16_PolicyUnparsedFatal ==
    \A g \in Procs :
        (Loaded(g) /\ ContentLoads(disk)) =>
            /\ loc[g].ld.err <=> \E h \in DOMAIN disk.hosts :
                                    disk.hosts[h].conf.kind = "bad"
            /\ ~loc[g].ld.err => \A h \in DOMAIN disk.hosts : HostBuilt(g, h)
            /\ loc[g].ld.err => fieldGen.sites # loc[g].ld.gen

\* a reload over a tree with an unparseable config.toml of host b has
\* returned its error, after host a (no config.toml) was built
C16_Witness ==
    \E g \in Procs :
        /\ Loaded(g) /\ ContentLoads(disk) /\ pc[g] = "done"
        /\ loc[g].ld.err
        /\ disk.hosts["b"].conf.kind = "bad"
        /\ disk.hosts["a"].conf.kind = "missing"
        /\ "a" \in DOMAIN loc[g].ld.sites
        /\ loc[g].ld.sites["a"].config = DefaultSiteConfig

\* status() has returned its text to the handler of goroutine g
StatusDone(g) == pc[g] = "done" /\ loc[g].op = "status"

(* C17: everything a status() result reports (the hosts with their         *)
(* resource counts, the flags of the two global pages, the aggregate       *)
(* statistics) was written by one and the same install; while that install *)
(* is the current one the result is what the registry holds.               *)
C17_StatusOneGeneration ==
    \A g \in Procs :
        StatusDone(g) =>
            /\ Cardinality(loc[g].seen) = 1
            /\ loc[g].out.nsites = Cardinality(DOMAIN loc[g].out.sites)
            /\ (loc[g].seen = {lastInstall} /\ writer = "none") =>
                  [loc[g].out EXCEPT !.devmode = FALSE]
                      = [StatusText EXCEPT !.devmode = FALSE]

\* a status() result of an older install, with a later install under way or
\* done
C17_Witness ==
    \E g \in Procs :
        /\ StatusDone(g)
        /\ loc[g].seen # {lastInstall}
        /\ loc[g].seen # {0}
        /\ loc[g].out.nsites > 0

\* where a load is while it assigns the registry fields
InstallPcs == {"load_nsf", "load_nsh"}

\* where a load is from its call to its install: listing, reading, hashing,
\* compressing ("load_build"), then waiting for the write lock ("load_lock")
BuildPcs == {"load_build", "load_lock"}

(* C18: a load holds the write lock exactly while it assigns the registry  *)
(* fields, never while it builds; while no load is assigning, the read     *)
(* lock can be taken; and what a load has built is read by nobody before   *)
(* its install.                                                            *)
C18_LockOnlyForInstall ==
    /\ \A g \in Procs : writer = g <=> pc[g] \in InstallPcs
    /\ (\A g \in Procs : pc[g] \notin InstallPcs) => CanRLock(writer)
    /\ \A g \in Procs :
          (pc[g] \in BuildPcs /\ loc[g].ld # Nil) =>
              /\ loc[g].ld.gen \notin {fieldGen.sites, fieldGen.errNoSuchHost,
                                       fieldGen.errNoSuchFile, fieldGen.stats}
              /\ \A h \in Procs : loc[g].ld.gen \notin loc[h].seen

\* a fetch or status that began after a load began has returned, answered
\* from the current install, while that load has built and not yet installed
C18_Witness ==
    \E g, h \in Procs :
        /\ pc[g] = "load_lock"
        /\ FetchDone(h) \/ StatusDone(h)
        /\ loc[h].n > loc[g].n
        /\ loc[h].seen = {lastInstall}
        /\ lastInstall # loc[g].ld.gen

\* where a goroutine is when its next step reads a field of the registry
ReadPcs == {"fetch_host", "fetch_default", "fetch_nsh", "fetch_nsh_ret",
            "fetch_nsf", "fetch_nsf_ret", "status"}

(* C19: no read that fetch or status makes of the host map, the global     *)
(* pages or the statistics is taken while a load holds the write lock.     *)
C19_ReadsUnderLock ==
    [][\A g \in Procs :
          (pc[g] \in ReadPcs /\ pc'[g] # pc[g]) => writer = "none"]_vars

(* C20: no step changes a published resource: a resource of the host map   *)
(* after a step that is also in the host map before it is unchanged, and   *)
(* then the host map is unchanged; a global page is replaced by another    *)
(* object or not at all; and the resource a handler holds stays as fetch   *)
(* returned it.                                                            *)
C20_PublishedFrozen ==
    [][/\ \A r1 \in Published(sites), r2 \in Published(sites') :
             r1.id = r2.id => r1 = r2 /\ sites' = sites
       /\ (errNoSuchHost # Nil /\ errNoSuchHost' # Nil /\ errNoSuchHost' # errNoSuchHost)
             => errNoSuchHost'.id # errNoSuchHost.id
       /\ (errNoSuchFile # Nil /\ errNoSuchFile' # Nil /\ errNoSuchFile' # errNoSuchFile)
             => errNoSuchFile'.id # errNoSuchFile.id
       /\ \A g \in Procs :
             (pc[g] \in {"done", "responded"} /\ pc'[g] # "idle") =>
                 loc'[g].res = loc[g].res
      ]_vars

\* the handler has answered with a resource of the host map, which a second
\* or later install published
C20_Witness ==
    \E g \in Procs :
        /\ pc[g] = "responded"
        /\ loc[g].res \in Published(sites)
        /\ lastInstall >= 2

-----------------------------------------------------------------------------
\* the origin class of resource r is cache-disabled by its site's policy
ClassCacheOff(r) ==
    IF r.fromDisk THEN r.config.Cache.NoCacheFromDisk
    ELSE r.config.Cache.NoCacheFromMem

\* the duration the policy of r's site gives the extension of r: that of
\* the extension when it has one, else the default duration
PolicyDuration(r) ==
    LET cc  == r.config.Cache
        ext == PathExt(r.path)
    IN  IF ext \in DOMAIN cc.CacheTimes THEN cc.CacheTimes[ext]
        ELSE cc.DefaultCacheTime

(* C21: the cache directive of every resource built from a file (in memory *)
(* or streamed from disk) is no-cache when its origin class is cache-      *)
(* disabled by the policy or the duration chosen for it is zero; otherwise *)
(* it is max-age of the duration of its extension, else of the default     *)
(* duration, in whole seconds.                                             *)
C21_CacheDirective ==
    \A r \in Live :
        r.cache = IF ClassCacheOff(r) \/ PolicyDuration(r) = 0 THEN NoCache
                  ELSE [directive |-> "public, max-age=",
                        seconds |-> PolicyDuration(r) \div 10]

\* the registry holds a resource of a cache-disabled class while fetch has
\* made one of an enabled class whose extension has a duration of zero
C21_Witness ==
    /\ \E r \in Published(sites) :
          ClassCacheOff(r) /\ PolicyDuration(r) > 0 /\ r.cache = NoCache
    /\ \E g \in Procs :
          /\ DiskFetched(g)
          /\ ~ClassCacheOff(loc[g].res)
          /\ PolicyDuration(loc[g].res) = 0

-----------------------------------------------------------------------------
\* goroutine g holds what a load pass over the tree as it is has built
BuiltOk(g) == Loaded(g) /\ ~loc[g].ld.err

\* the directory of its host a resource of a load pass was read from
DirOf(r) == r.path[2]

\* the keys directory d of host h publishes: its files, and its directories
\* that hold the default file of site st as a regular file
KeysOf(tree, h, d, st) ==
    IF d \notin DOMAIN tree.hosts[h].sub THEN {}
    ELSE LET files == tree.hosts[h].sub[d]
         IN  DOMAIN files \cup
             {n \in DirsOf(files) :
                 Append(n, st.config.General.DefaultFile) \in DOMAIN files}

-----------------------------------------------------------------------------
\* the maps of site st that directory d of a host populates
MapsOf(st, d) ==
    (IF d \in {"http", "common"} THEN {st.http} ELSE {}) \cup
    (IF d \in {"https", "common"} THEN {st.https} ELSE {})

\* the tree holds no config.toml that does not parse
ConfParses(tree) == \A h \in DOMAIN tree.hosts : tree.hosts[h].conf.kind # "bad"

-----------------------------------------------------------------------------
\* the handler answered a HEAD request for the result of fetch
HeadResponded(g) == Responded(g) /\ loc[g].req.method = "HEAD"

\* what the handler writes for the same result and the same request sent as
\* a GET
AsGet(g) ==
    Response(loc[g].res, loc[g].status, [loc[g].req EXCEPT !.method = "GET"])

(* C24: the response to a HEAD request has the status and, Date aside, the *)
(* headers of the response to the same request sent as a GET against the   *)
(* same result of fetch, and no body.                                      *)
C24_HeadAsGet ==
    \A g \in Procs :
        HeadResponded(g) =>
            /\ ~AsGet(g).panic
            /\ loc[g].resp.status = AsGet(g).status
            /\ DOMAIN loc[g].resp.header = DOMAIN AsGet(g).header
            /\ \A k \in DOMAIN loc[g].resp.header \ {"Date"} :
                  loc[g].resp.header[k] = AsGet(g).header[k]
            /\ loc[g].resp.body = Nil

\* a HEAD request was answered 200 from memory, with gzip negotiated, where
\* the GET has a body and a Content-Length
C24_Witness ==
    \E g \in Procs :
        /\ HeadResponded(g)
        /\ loc[g].resp.status = 200
        /\ loc[g].res.bodyReadCloser = Nil
        /\ Negotiated(g)
        /\ AsGet(g).body # Nil
        /\ "Content-Length" \in DOMAIN AsGet(g).header

\* the handler of goroutine g has written its response or has panicked
Handled(g) == pc[g] \in {"responded", "refused"}

(* C25: every request the handler has dealt with has exactly one access-   *)
(* log record, and that record carries the status the handler sent: for    *)
(* 405, for 304, for 200/403/404 from memory, for a streamed file, for     *)
(* HEAD.                                                                   *)
C25_OneAccessRecord ==
    \A g \in Procs :
        Handled(g) =>
            /\ ~loc[g].resp.panic
            /\ loc[g].resp.access = <<loc[g].resp.status>>

\* C25 for the requests whose handler did not panic
C25_AccessUnlessPanic ==
    \A g \in Procs :
        (Handled(g) /\ ~loc[g].resp.panic) =>
            loc[g].resp.access = <<loc[g].resp.status>>

-----------------------------------------------------------------------------
\* what a client can observe of resource r
ViewOf(r) ==
    [content |-> r.body.data,
     gzip    |-> IF r.gzip = Nil THEN Nil ELSE r.gzip.data,
     hash    |-> r.hash, ghash |-> r.ghash, cnttype |-> r.cnttype,
     cache   |-> r.cache, permitGZIP |-> r.permitGZIP]

\* what a client can observe of a host map: its hosts, the keys of their
\* maps, and the view of the resource of each key
Observable(ss) ==
    [h \in DOMAIN ss |->
        [http  |-> [k \in DOMAIN ss[h].http |-> ViewOf(ss[h].http[k])],
         https |-> [k \in DOMAIN ss[h].https |-> ViewOf(ss[h].https[k])]]]

\* goroutine g has built a generation from the tree the installed
\* generation was built from, and is about to install it
SecondLoad(g) ==
    /\ pc[g] = "load_lock"
    /\ loc[g].ld.tree = installedFrom
    /\ fieldGen.sites = lastInstall

-----------------------------------------------------------------------------
\* fetch has returned not-found for a site of the generation that is
\* installed, which was built from the tree as it is
SiteMissed(g) ==
    /\ FetchDone(g) /\ loc[g].s # Nil /\ loc[g].status # 200
    /\ ~loc[g].edited
    /\ installedFrom = disk
    /\ loc[g].seen = {lastInstall}

\* the host whose site answered the request of g
SiteHost(g) == IF loc[g].host \in DOMAIN sites THEN loc[g].host ELSE defaulthost

(* C27: a 404.html placed directly in the directory of a site              *)
(* (root/<host>/404.html) applies to that site only: a missing path of     *)
(* that host is answered 404 with the content of that file, and a missing  *)
(* path of a host without such a file with a global or the built-in page.  *)
C27_SiteNotFoundPage ==
    \A g \in Procs :
        SiteMissed(g) =>
            LET top == disk.hosts[SiteHost(g)].top
            IN  /\ loc[g].status = 404
                /\ IF "404.html" \in DOMAIN top
                   THEN /\ loc[g].res.body # Nil
                        /\ loc[g].res.body.data = PlainBytes(top["404.html"].data)
                   ELSE loc[g].res \in {errNoSuchFile, defaultNoSuchFile}

\* what the code does: the not-found page of a site is the 404.html at the
\* top of the directory of the request's scheme (http or common, https or
\* common); a 404.html directly in the host directory is never read
C27_SchemeNotFoundPage ==
    \A g \in Procs :
        SiteMissed(g) =>
            LET rmap == RMap(loc[g].s, loc[g].url.scheme)
            IN  /\ loc[g].status = 404
                /\ IF <<"404.html">> \in DOMAIN rmap
                   THEN /\ loc[g].res = rmap[<<"404.html">>]
                        /\ DirOf(loc[g].res) \in {"http", "https", "common"}
                   ELSE loc[g].res \in {errNoSuchFile, defaultNoSuchFile}

\* a missing path of a host with a 404.html directly in its directory was
\* answered with the built-in page
C27_Witness ==
    \E g \in Procs :
        /\ SiteMissed(g)
        /\ "404.html" \in DOMAIN disk.hosts[SiteHost(g)].top
        /\ loc[g].res = defaultNoSuchFile

-----------------------------------------------------------------------------
(* C28: when the policy of a site sets noDefaultFile, no directory path of *)
(* the site is published with the default file's content; when it does     *)
(* not, every directory that holds the default file is published.          *)
C28_NoDefaultFile ==
    \A g \in Procs :
        BuiltOk(g) =>
            \A h \in DOMAIN loc[g].ld.sites :
            \A d \in DOMAIN disk.hosts[h].sub \cap {"http", "https", "common"} :
                LET st    == loc[g].ld.sites[h]
                    files == disk.hosts[h].sub[d]
                IN  \A n \in DirsOf(files), M \in MapsOf(st, d) :
                        LET df == Append(n, st.config.General.DefaultFile)
                        IN  IF st.config.General.NoDefaultFile
                            THEN n \in DOMAIN M => M[n].path # <<h, d>> \o df
                            ELSE df \in DOMAIN files => n \in DOMAIN M

\* a load has built a site whose policy sets noDefaultFile and whose map
\* holds a directory path with the content of the default file
C28_Witness ==
    \E g \in Procs :
        /\ BuiltOk(g)
        /\ \E h \in DOMAIN loc[g].ld.sites :
              LET st == loc[g].ld.sites[h]
              IN  /\ st.config.General.NoDefaultFile
                  /\ << >> \in DOMAIN st.http
                  /\ st.http[<< >>].path =
                        <<h, "common", st.config.General.DefaultFile>>

-----------------------------------------------------------------------------
\* the writer runs (the variables of the log are those of a RotateWriter)
Logging == rw # Nil

(* C29: the RotateWriter keeps one current logfile and nine gzipped old    *)
(* logfiles: after any sequence of rotations at most nine archives         *)
(* Filename.N.gz exist.                                                    *)
C29_NineArchives ==
    Logging => Cardinality(DOMAIN logdir.archives) <= 9

\* what the code keeps: the archives are Filename.1.gz .. Filename.10.gz,
\* at most ten of them
C29_TenArchives ==
    Logging => DOMAIN logdir.archives \subseteq 1..10

\* ten rotations have left ten archives
C29_Witness ==
    Logging /\ DOMAIN logdir.archives = 1..10

(* C30: when Shutdown closes the logfile, every line Write has queued has  *)
(* been written to the file, whatever the interleaving of Serve, the       *)
(* callers of Write and Shutdown.                                          *)
C30_ShutdownFlushes ==
    (Logging /\ lpc.main = "exited") => loghist.pending = 0

\* Shutdown has closed the file with a line still queued, Serve not yet
\* having called w.wg.Add
C30_Witness ==
    /\ Logging /\ lpc.main = "exited"
    /\ lpc.serve = "start"
    /\ rw.Queue # << >>

\* where Serve has returned nil before Shutdown closes the file, every line
\* has been written
C30_FlushedAfterServe ==
    (Logging /\ lpc.main = "close" /\ lpc.serve = "returned") =>
        loghist.sent = loghist.flushed

(* C31: MaxLines is the maximum number of lines in the current logfile: at  *)
(* every point the number of lines in the current file, the lines already  *)
(* there when NewRotateWriter reused the file included, is at most         *)
(* MaxLines, a rotation coming before any line that would exceed it.       *)
C31_MaxLinesBound ==
    Logging => Len(logdir.cur) <= rw.MaxLines

\* what the code keeps: Serve writes at most MaxLines + 1 lines between two
\* rotations, w.count starting at 0 whatever the file already holds
C31_CountBound ==
    Logging => rw.count <= rw.MaxLines + 1

\* a reused file holds more than MaxLines + 1 lines
C31_ReusedFile ==
    Logging /\ rw.MaxLines = 2 /\ Len(logdir.cur) = 5

\* fetch has answered g for a host that is not registered, from the Site of
\* the default host
ByDefaultHost(g) ==
    /\ SiteFetched(g)
    /\ loc[g].host \notin DOMAIN sites
    /\ defaulthost \in DOMAIN sites
    /\ loc[g].s = sites[defaulthost]

(* C32: when the host of the request is not registered and the Site of     *)
(* the default host is used, a path under the fancy prefix that is not in  *)
(* memory is opened under root/<default host>/fancy, never under a         *)
(* directory named after the host of the request.                          *)
C32_DefaultHostFancy ==
    \A g \in Procs :
        (ByDefaultHost(g) /\ UnderFancy(g) /\ ~InMemory(g)) =>
            /\ FancyOpen(disk, defaulthost, loc[g].p) # Nil =>
                   /\ Streams(g)
                   /\ loc[g].res.path = <<defaulthost, "fancy">> \o loc[g].p
            /\ Streams(g) => loc[g].res.path[1] = defaulthost

\* what the code does: the file is looked for under the directory named
\* after the host of the request, and streams only if it opens there
C32_RequestHostFancy ==
    \A g \in Procs :
        (ByDefaultHost(g) /\ UnderFancy(g) /\ ~InMemory(g)) =>
            (Streams(g) <=> FancyOpen(disk, loc[g].host, loc[g].p) # Nil)

\* the default host has the file under its fancy directory and the request
\* for the unregistered host is answered 404
C32_Witness ==
    \E g \in Procs :
        /\ ByDefaultHost(g) /\ UnderFancy(g) /\ ~InMemory(g)
        /\ FancyOpen(disk, defaulthost, loc[g].p) # Nil
        /\ loc[g].status = 404

(* C33: whenever a Resource fails a compression condition its gzip payload *)
(* is discarded and gzip is not permitted: no published Resource has gzip  *)
(* not permitted while a gzip payload is still attached.                   *)
C33_NoGzipPayloadKept ==
    \A r \in Published(sites) : ~r.permitGZIP => r.gzip = Nil

\* what the code keeps: the payload is dropped only by the ratio test; a
\* Resource not permitted gzip that still has one was stopped by the policy
\* of its class, the minimum size or the blacklist
C33_PayloadKeptByEarlyReturn ==
    \A r \in Published(sites) :
        /\ (~r.permitGZIP /\ r.gzip # Nil) => (CompressionOff(r) \/ Blacklisted(r))
        /\ (~r.permitGZIP /\ r.gzip = Nil) => ~CompressionOff(r) /\ ~Blacklisted(r)
        /\ r.permitGZIP => r.gzip # Nil

\* a blacklisted Resource is published with its gzip payload, and another
\* one has lost it to the ratio test
C33_Witness ==
    /\ \E r \in Published(sites) : ~r.permitGZIP /\ r.gzip # Nil /\ Blacklisted(r)
    /\ \E r \in Published(sites) : ~r.permitGZIP /\ r.gzip = Nil

\* the request of g carries a conditional header that would give 304 on a
\* found resource: the tag of the resource, "*", or a date after its load
Revalidates(g) ==
    \/ loc[g].req.inm # Nil /\ loc[g].req.inm \in {loc[g].res.hash, Star}
    \/ /\ loc[g].req.inm = Nil /\ loc[g].req.ims # Nil
       /\ ~ParseRFC1123(loc[g].req.ims).err
       /\ ParseRFC1123(loc[g].req.ims).t > loc[g].res.loaded

(* C34: the conditional short-circuit applies only when the status of      *)
(* fetch is 200: a response whose Resource is an error page (status 403 or *)
(* 404) is never turned into 304, whatever If-None-Match ("*" or the       *)
(* page's own tag included) or If-Modified-Since the request carries.      *)
C34_ErrorPageNever304 ==
    \A g \in Procs :
        (Responded(g) /\ loc[g].status \in {403, 404}) =>
            /\ loc[g].resp.status = loc[g].status
            /\ loc[g].resp.access = <<loc[g].status>>
            /\ loc[g].req.method = "GET" => loc[g].resp.body # Nil

\* a 404 page has been sent in full to a GET that carried the page's own tag
C34_Witness ==
    \E g \in Procs :
        /\ Responded(g) /\ loc[g].status = 404
        /\ loc[g].req.method = "GET"
        /\ loc[g].req.inm = loc[g].res.hash
        /\ loc[g].resp.status = 404 /\ loc[g].resp.body # Nil

\* the same for a 403 page and "*"
C34_Forbidden ==
    \E g \in Procs : /\ Responded(g) /\ loc[g].status = 403
                      /\ loc[g].req.inm = Star
                      /\ loc[g].resp.status = 403

\* and for a 404 page and a date after its load
C34_Dated ==
    \E g \in Procs : /\ Responded(g) /\ loc[g].status = 404
                      /\ loc[g].req.inm = Nil /\ Revalidates(g)
                      /\ loc[g].resp.status = 404

\* both conditional headers are present in the request g has answered
BothConditionals(g) ==
    Responded(g) /\ loc[g].status = 200
        /\ loc[g].req.inm # Nil /\ loc[g].req.ims # Nil

(* C35: If-None-Match takes precedence over If-Modified-Since: when both   *)
(* headers are present the 304 decision depends on If-None-Match alone     *)
(* (the response is the one the request without If-Modified-Since gets),   *)
(* so an If-None-Match that matches nothing yields the full response even  *)
(* when the If-Modified-Since date by itself would yield 304.              *)
C35_IfNoneMatchFirst ==
    \A g \in Procs :
        BothConditionals(g) =>
            /\ loc[g].resp.status =
                   IF loc[g].req.inm \in {loc[g].res.hash, Star} THEN 304 ELSE 200
            /\ (loc[g].req.inm \notin {loc[g].res.hash, loc[g].res.ghash, Star}
                    /\ loc[g].req.method = "GET") =>
                   loc[g].resp.body # Nil

\* a full response to a request whose If-None-Match matches nothing and
\* whose If-Modified-Since is after the load time of the resource
C35_Witness ==
    \E g \in Procs :
        /\ BothConditionals(g)
        /\ loc[g].req.inm = StaleTag
        /\ ParseRFC1123(loc[g].req.ims).t > loc[g].res.loaded
        /\ loc[g].resp.status = 200 /\ loc[g].resp.body # Nil

\* a 304 to a request whose If-None-Match is "*" and whose
\* If-Modified-Since is before the load time
C35_StarFirst ==
    \E g \in Procs :
        /\ BothConditionals(g)
        /\ loc[g].req.inm = Star
        /\ ParseRFC1123(loc[g].req.ims).t < loc[g].res.loaded
        /\ loc[g].resp.status = 304

\* the handler has finished with a request for which fetch opened a file
StreamHandled(g) == Responded(g) /\ loc[g].res.bodyReadCloser # Nil

(* C36: every file handle that fetch opened for a disk stream is closed by *)
(* the time the handling of the request ends, on every outcome (GET with   *)
(* body, HEAD, 304): no handled request leaves its handle open.            *)
C36_StreamClosed ==
    \A g \in Procs : StreamHandled(g) => loc[g].resp.closed

\* what the code does: the handle is closed exactly when the body has been
\* copied, which is for a GET that was not answered 304
C36_ClosedAfterCopy ==
    \A g \in Procs :
        StreamHandled(g) =>
            (loc[g].resp.closed <=>
                (loc[g].req.method = "GET" /\ loc[g].resp.status # 304))

\* a HEAD for a streamed file has been answered and the handle is open
C36_Witness ==
    \E g \in Procs :
        /\ StreamHandled(g)
        /\ loc[g].req.method = "HEAD"
        /\ ~loc[g].resp.closed

\* a 304 for a streamed file has been sent and the handle is open
C36_NotModifiedOpen ==
    \E g \in Procs :
        /\ StreamHandled(g)
        /\ loc[g].resp.status = 304
        /\ ~loc[g].resp.closed

(* C37: the log writer never blocks its callers forever: every Write call  *)
(* eventually returns and Shutdown, once called, eventually returns, in    *)
(* every execution, those in which Serve returned an error included.       *)
C37_NeverBlocks ==
    /\ (Logging /\ lpc.writer = "send") ~> (lpc.writer # "send")
    /\ (Logging /\ lpc.main = "wait") ~> (lpc.main = "exited")

\* Shutdown alone: it does not return after Serve has returned an error
C37_ShutdownReturns ==
    (Logging /\ lpc.main = "wait") ~> (lpc.main = "exited")

\* Write alone: it does not return when the queue is full and Serve has
\* returned an error
C37_WriteReturns ==
    (Logging /\ lpc.writer = "send") ~> (lpc.writer # "send")

\* what the code keeps: a caller stays blocked only after Serve has
\* returned an error
C37_BlockedOnlyAfterFailure ==
    /\ (Logging /\ lpc.writer = "send") ~>
          (lpc.writer # "send" \/ lpc.serve = "failed")
    /\ (Logging /\ lpc.main = "wait") ~>
          (lpc.main = "exited" \/ lpc.serve = "failed")

\* Shutdown waits, Serve having returned an error without w.wg.Done()
C37_ShutdownStuck ==
    /\ Logging /\ lpc.serve = "failed"
    /\ lpc.main = "wait" /\ rw.wg = 1

\* Write is blocked on a full queue that nothing will receive from
C37_WriteStuck ==
    /\ Logging /\ lpc.serve = "failed"
    /\ lpc.writer = "send" /\ Len(rw.Queue) = QueueCap /\ ~rw.closed

\* fetch has answered g from a Site whose fancy prefix is empty
NoFancyPrefix(g) ==
    SiteFetched(g) /\ loc[g].s.config.General.FancyFolder = ""

(* C38: a Site whose fancy-folder prefix is empty (a config.toml with a    *)
(* [general] section that does not set fancyFolder) never serves a request *)
(* from disk: every fetch is answered from the memory map or the 404       *)
(* chain, and no file under root/<host>/fancy is opened.                   *)
C38_EmptyPrefixNoDisk ==
    \A g \in Procs :
        NoFancyPrefix(g) =>
            /\ ~Streams(g)
            /\ \/ InMemory(g) /\ loc[g].status = 200
               \/ ~InMemory(g) /\ loc[g].status = 404

\* what the code does: the empty prefix is a prefix of every path, so every
\* path that misses the memory map is looked for under root/<host>/fancy
C38_EmptyPrefixAllDisk ==
    \A g \in Procs :
        (NoFancyPrefix(g) /\ ~InMemory(g)) => (Streams(g) <=> OnDisk(g))

\* a file under root/a/fancy has been opened and is streamed for a Site
\* whose prefix is empty
C38_Witness ==
    \E g \in Procs :
        /\ NoFancyPrefix(g)
        /\ Streams(g)
        /\ loc[g].res.path = <<"a", "fancy", "f", "pic.jpg">>

\* load passes are numbered in the order in which they read the tree; g and
\* h have both returned from a load that succeeded, that of g having read the
\* tree before that of h
LoadedBefore(g, h) ==
    /\ pc[g] = "done" /\ pc[h] = "done"
    /\ loc[g].ld # Nil /\ loc[h].ld # Nil
    /\ ~loc[g].ld.err /\ ~loc[h].ld.err
    /\ loc[g].ld.gen < loc[h].ld.gen

(* C39: the current generation never regresses: if load A has finished     *)
(* reading the tree before load B starts reading it, the result of A is    *)
(* never installed over that of B; once both have returned the current     *)
(* generation is that of B.                                                *)
C39_NewerLoadStays ==
    \A g, h \in Procs :
        (LoadedBefore(g, h) /\ writer = "none") =>
            /\ lastInstall = loc[h].ld.gen
            /\ fieldGen.sites = loc[h].ld.gen

\* the same as a property of each step: no install lowers the number of
\* the installed pass
C39_NeverRegresses ==
    [][lastInstall' >= lastInstall]_vars

\* what the code keeps: after both have returned the installed generation
\* is that of the load that took the write lock last, either of the two
C39_LastLockerStays ==
    \A g, h \in Procs :
        (LoadedBefore(g, h) /\ writer = "none") =>
            lastInstall \in {loc[g].ld.gen, loc[h].ld.gen}

\* the load that read the tree first took the lock last: the installed
\* generation is the older one, built from a tree that has changed since
C39_Witness ==
    \E g, h \in Procs :
        /\ LoadedBefore(g, h) /\ writer = "none"
        /\ lastInstall = loc[g].ld.gen
        /\ loc[g].ld.tree # loc[h].ld.tree
        /\ loc[h].ld.tree = disk

\* the lines of Filename.n.gz, Filename.(n-1).gz, ..., Filename.1.gz, in
\* that order
RECURSIVE ArchiveLines(_, _)
ArchiveLines(A, n) ==
    IF n = 0 THEN << >>
    ELSE (IF n \in DOMAIN A THEN A[n] ELSE << >>) \o ArchiveLines(A, n - 1)

\* the lines this run's Writes sent that are in the archives and the current
\* file, read from the oldest archive to the current file
EntriesKept ==
    SelectSeq(ArchiveLines(logdir.archives, 10) \o logdir.cur, LAMBDA e : e > 0)

\* Serve is not inside the body of its loop
BetweenEntries == lpc.serve # "entry"

(* C40: rotation neither loses, duplicates nor reorders lines: until an    *)
(* archive falls off the end, the archives read from the highest N down to *)
(* 1, followed by the current file, contain exactly the lines Serve has    *)
(* received, in the order in which Write queued them.                      *)
C40_NothingLost ==
    (Logging /\ BetweenEntries /\ ~loghist.dropped) =>
        EntriesKept = [i \in 1..loghist.consumed |-> i]

\* what the code keeps: the same as long as Serve has not returned an error
C40_NothingLostWhileServing ==
    (Logging /\ lpc.serve \in {"start", "range", "returned"} /\ ~loghist.dropped) =>
        EntriesKept = [i \in 1..loghist.consumed |-> i]

\* lines of this run are in three archives or more and none has been lost
C40_Rotated ==
    /\ Logging /\ lpc.serve = "range" /\ ~loghist.dropped
    /\ Cardinality(DOMAIN logdir.archives) >= 3
    /\ Len(EntriesKept) >= 4
    /\ \E n \in DOMAIN logdir.archives : \E i \in DOMAIN logdir.archives[n] :
          logdir.archives[n][i] > 0

\* os.Create has failed in rotate: the lines of the current file are in
\* Filename.1.gz as well
C40_Duplicated ==
    /\ Logging /\ lpc.serve = "failed"
    /\ 1 \in DOMAIN logdir.archives
    /\ logdir.cur # << >>
    /\ logdir.archives[1] = logdir.cur
    /\ \E i \in DOMAIN logdir.cur : logdir.cur[i] > 0

\* Serve has received a line and returned an error: the line is in no file
C40_Lost ==
    /\ Logging /\ lpc.serve = "failed"
    /\ \A i \in DOMAIN EntriesKept : EntriesKept[i] # loghist.consumed

====
